---- MODULE Spec2Model ----
(***************************************************************************)
(* Model of the realtime translation session client                        *)
(* (lib/openai/realtime-client.ts, class RealtimeWebRTCClient) together    *)
(* with the callbacks the consuming hook (lib/hooks/useRealtimeTranslation *)
(* .ts) installs on it.                                                    *)
(*                                                                         *)
(* The browser runs every handler to completion on one event loop, so each *)
(* handler, and each continuation of an async function after an await, is  *)
(* one atomic action.  Suspended invocations of attemptReconnect()/        *)
(* connect() are the records of the bag `tasks`.                           *)
(*                                                                         *)
(* The credential endpoint (app/api/realtime/session/route.ts) runs on the *)
(* server; its module-level rate-limit map and the answers it gives are    *)
(* modelled by variables of their own, under specifications of their own.  *)
(***************************************************************************)
EXTENDS Integers, Sequences, FiniteSets, Bags, TLC

(***************************************************************************)
(* Bounds of the model (not program constants).                            *)
(***************************************************************************)
MaxTasks == 2        \* suspended async invocations in flight at once
MaxLen == 2          \* longest transcript text, in tokens
MaxHistory == 1      \* records the model lets a session append to history
MaxSent == 2         \* events the model lets the client write to the data channel
MaxTicks == 2        \* times the model lets the server clock advance
MaxRequests == 3     \* credential requests the model lets the hook send

(***************************************************************************)
(* Program constants.                                                      *)
(***************************************************************************)
maxAttempts == 3          \* RECONNECT_CONFIG.maxAttempts
baseDelayMs == 1000       \* RECONNECT_CONFIG.baseDelayMs
maxDelayMs == 10000       \* RECONNECT_CONFIG.maxDelayMs
HistoryCap == 100         \* slice(-100) in addToHistoryRef
RATE_LIMIT_WINDOW == 60000        \* 60 * 1000 ms
RATE_LIMIT_MAX_REQUESTS == 10
MaxInstructionsLength == 2000     \* instructions.length > 2000
MAX_IMAGE_SIZE == 10485760        \* 10 * 1024 * 1024 bytes

NULL == "null"            \* JavaScript null (clientSecret)
UNDEFINED == <<"<undefined>">>   \* JavaScript undefined read from a missing field

ConnectionStates == {"disconnected", "connecting", "connected", "reconnecting", "failed"}
TranslationStates == {"idle", "listening", "processing", "speaking", "error"}

VARIABLES
  \* fields of RealtimeWebRTCClient
  peerConnection,     \* TRUE iff this.peerConnection is not null
  dataChannel,        \* "null", or the readyState of this.dataChannel
  mediaStream,        \* TRUE iff this.mediaStream is not null
  connectionState,
  translationState,
  reconnectAttempts,
  clientSecret,
  outputTranscript,
  \* refs and state of the hook that the client's callbacks write
  currentInput,       \* currentInputRef.current
  currentOutput,      \* currentOutputRef.current
  directionRef,       \* TRUE iff directionRef.current is not null
  history,
  \* the owner of the client
  connectCalled,      \* the owner has called connect() on this instance
  tornDown,           \* the owner has called disconnect() since
  \* the browser
  tasks,              \* bag of suspended invocations (see Task)
  pcNegotiated,       \* the remote description was applied to this.peerConnection
  leakedPCs,          \* some peer connection is open but no longer referenced
  leakedStreams,      \* some captured stream is live but no longer referenced
  \* observations
  emitted,            \* the errors the last handler passed to onError, in order
  startedSinceReset,  \* reconnection attempts started since reconnectAttempts was last set to 0
  discCount,          \* disconnected signals handled since the last connected signal
                      \* (-1: the session has not been connected; stops at maxAttempts + 1)
  appended,           \* records addToHistoryRef has appended to history
  sent,               \* the types of the events written to the data channel, in order
  started,            \* calls of startTranslation made by the hook's connect()
  \* the credential endpoint
  rateLimitMap,       \* client key -> entry {count, resetTime} (or no entry)
  now,                \* Date.now() of the server
  ticks,              \* times the clock has advanced
  requestBody,        \* body of the request answered last
  response,           \* the answer to it
  windowOpened,       \* client key -> time of the request that opened its window
  windowPassed,       \* client key -> requests of that window that passed the rate check
  denied,             \* client key -> TRUE iff the rate check has denied a request of the key
  \* the image translation service
  image,              \* the image of the request (see Image)
  imageResult,        \* what translateImage returned for it
  \* the hook and the clients it has created (see HookIdle)
  hook

routeVars == <<rateLimitMap, now, ticks, requestBody, response,
               windowOpened, windowPassed, denied>>

imageVars == <<image, imageResult>>

serverVars == <<routeVars, imageVars>>

vars == <<peerConnection, dataChannel, mediaStream, connectionState,
          translationState, reconnectAttempts, clientSecret, outputTranscript,
          currentInput, currentOutput, directionRef, history,
          connectCalled, tornDown, tasks, pcNegotiated, leakedPCs, leakedStreams,
          emitted, startedSinceReset, discCount, appended, sent, started,
          rateLimitMap, now, ticks, requestBody, response,
          windowOpened, windowPassed, denied, image, imageResult, hook>>

(***************************************************************************)
(* Handlers are written as functions on the record of everything a         *)
(* handler can read or write; Cur is that record in the current state and  *)
(* Commit(c) makes it the next state.  The field errs collects what the    *)
(* handler passed to onError, outs what it passed to onOutputTranscript    *)
(* (the surfaced output text), changes counts the state-change callbacks   *)
(* it fired, threw tells whether an exception left it.                     *)
(***************************************************************************)
Cur ==
  [peerConnection |-> peerConnection, dataChannel |-> dataChannel,
   mediaStream |-> mediaStream, connectionState |-> connectionState,
   translationState |-> translationState,
   reconnectAttempts |-> reconnectAttempts, clientSecret |-> clientSecret,
   outputTranscript |-> outputTranscript,
   currentInput |-> currentInput, currentOutput |-> currentOutput,
   directionRef |-> directionRef, history |-> history,
   connectCalled |-> connectCalled, tornDown |-> tornDown, tasks |-> tasks, pcNegotiated |-> pcNegotiated,
   leakedPCs |-> leakedPCs, leakedStreams |-> leakedStreams,
   startedSinceReset |-> startedSinceReset, discCount |-> discCount,
   appended |-> appended, sent |-> sent, started |-> started,
   errs |-> <<>>, outs |-> <<>>, changes |-> 0, threw |-> FALSE]

Min(a, b) == IF a < b THEN a ELSE b

RECURSIVE Pow2(_)
Pow2(k) == IF k <= 0 THEN 1 ELSE 2 * Pow2(k - 1)

(***************************************************************************)
(* JavaScript truthiness of a string-or-undefined value and String.trim(). *)
(***************************************************************************)
Truthy(s) == s # <<>> /\ s # UNDEFINED

RECURSIVE TrimLeft(_)
TrimLeft(s) == IF s # <<>> /\ Head(s) = " " THEN TrimLeft(Tail(s)) ELSE s

RECURSIVE TrimRight(_)
TrimRight(s) ==
  IF s # <<>> /\ s[Len(s)] = " " THEN TrimRight(SubSeq(s, 1, Len(s) - 1)) ELSE s

Trim(s) == TrimRight(TrimLeft(s))

(***************************************************************************)
(* Suspended invocations.                                                  *)
(*   loc     where the invocation is suspended:                            *)
(*           "timer"   attemptReconnect, in the backoff delay              *)
(*           "mic"     connect, awaiting getUserMedia                      *)
(*           "offer"   connect, awaiting createOffer                       *)
(*           "local"   connect, awaiting setLocalDescription               *)
(*           "fetch"   connect, awaiting fetch and response.text()         *)
(*           "remote"  connect, awaiting setRemoteDescription              *)
(*   origin  "user" for a call of connect() by the owner of the client,    *)
(*           "reconnect" for the call made by attemptReconnect             *)
(*   secret  the clientSecret argument of connect()                        *)
(*   awaitPc the peer connection whose promise the invocation awaits:      *)
(*           "none", "current" (this.peerConnection), "leaked" (replaced   *)
(*           by a later setupPeerConnection, still open) or "closed"       *)
(*   disc    disconnect() was called while the invocation was suspended    *)
(*   n, delay  the attempt number and the delay of a backoff timer         *)
(***************************************************************************)
Task(loc, origin, secret, awaitPc, disc, n, delay) ==
  [loc |-> loc, origin |-> origin, secret |-> secret, awaitPc |-> awaitPc,
   disc |-> disc, n |-> n, delay |-> delay]

AddTask(b, t) == b (+) SetToBag({t})
RemoveTask(b, t) == b (-) SetToBag({t})

\* The bag b after each task t is replaced by f[t].
RetagBag(b, f) ==
  LET S == BagToSet(b)
      T == {f[t] : t \in S}
  IN [u \in T |-> BagCardinality([t \in {x \in S : f[x] = u} |-> b[t]])]

(***************************************************************************)
(* setConnectionState / setTranslationState and the hook callbacks         *)
(***************************************************************************)
setConnectionState(c, s) ==
  IF c.connectionState # s
  THEN [c EXCEPT !.connectionState = s, !.changes = @ + 1]
  ELSE c

\* variant: on overflow the first HistoryCap records are kept
addToHistoryRef_KeepOldest(c, input, output) ==
  IF Trim(input) = <<>> \/ Trim(output) = <<>> \/ ~c.directionRef
  THEN c
  ELSE LET item == [inputText |-> input, outputText |-> output]
           h == Append(c.history, item)
       IN [c EXCEPT !.history = IF Len(h) > HistoryCap
                                  THEN SubSeq(h, 1, HistoryCap)
                                  ELSE h,
                    !.appended = @ + 1]

addToHistoryRef(c, input, output) ==
  IF Trim(input) = <<>> \/ Trim(output) = <<>> \/ ~c.directionRef
  THEN c
  ELSE LET item == [inputText |-> input, outputText |-> output]
           h == Append(c.history, item)
       IN [c EXCEPT !.history = IF Len(h) > HistoryCap
                                  THEN SubSeq(h, Len(h) - HistoryCap + 1, Len(h))
                                  ELSE h,
                    !.appended = @ + 1]

\* variant: the idle signal does not flush the pending pair
onTranslationStateChange_NoIdleFlush(c, s) ==
  IF s = "listening"
  THEN LET c1 == IF Truthy(c.currentInput) /\ Truthy(c.currentOutput)
                 THEN addToHistoryRef(c, c.currentInput, c.currentOutput)
                 ELSE c
       IN [c1 EXCEPT !.currentInput = <<>>, !.currentOutput = <<>>]
  ELSE c

onTranslationStateChange(c, s) ==
  IF s = "listening"
  THEN LET c1 == IF Truthy(c.currentInput) /\ Truthy(c.currentOutput)
                 THEN addToHistoryRef(c, c.currentInput, c.currentOutput)
                 ELSE c
       IN [c1 EXCEPT !.currentInput = <<>>, !.currentOutput = <<>>]
  ELSE IF s = "idle" /\ Truthy(c.currentInput) /\ Truthy(c.currentOutput)
  THEN [addToHistoryRef(c, c.currentInput, c.currentOutput)
          EXCEPT !.currentInput = <<>>, !.currentOutput = <<>>]
  ELSE c

setTranslationState(c, s) ==
  IF c.translationState # s
  THEN onTranslationStateChange(
         [c EXCEPT !.translationState = s, !.changes = @ + 1], s)
  ELSE c

Error(type, recoverable) == [type |-> type, recoverable |-> recoverable]

\* variant: every error forces Turn State to error
handleError_AlwaysError(c, e) ==
  setTranslationState([c EXCEPT !.errs = Append(@, e)], "error")

handleError(c, e) ==
  LET c1 == [c EXCEPT !.errs = Append(@, e)]
  IN IF ~e.recoverable THEN setTranslationState(c1, "error") ELSE c1

(***************************************************************************)
(* Transport signals and reconnection                                      *)
(***************************************************************************)
ConnectionError == Error("connection", FALSE)
\* variant: a microphone failure is reported as a connection error
AudioError_AsConnection == Error("connection", FALSE)

AudioError == Error("audio", FALSE)
DataChannelError == Error("connection", TRUE)

handleConnectionFailure(c) ==
  handleError(setTranslationState(setConnectionState(c, "failed"), "error"),
              ConnectionError)

\* variant: the exponent is the attempt number itself
ReconnectDelay_OffByOne(n) == Min(baseDelayMs * Pow2(n), maxDelayMs)

ReconnectDelay(n) == Min(baseDelayMs * Pow2(n - 1), maxDelayMs)

\* attemptReconnect() up to its await of the backoff timer
attemptReconnect(c) ==
  IF c.clientSecret = NULL
  THEN c
  ELSE LET n == c.reconnectAttempts + 1
       IN [c EXCEPT !.reconnectAttempts = n,
                    !.startedSinceReset = @ + 1,
                    !.tasks = AddTask(@, Task("timer", "reconnect", NULL, "none",
                                              FALSE, n, ReconnectDelay(n)))]

\* variant: one attempt more than maxAttempts is allowed
handleDisconnection_OffByOne(c) ==
  IF c.reconnectAttempts <= maxAttempts
  THEN attemptReconnect(setConnectionState(c, "reconnecting"))
  ELSE handleConnectionFailure(c)

handleDisconnection(c) ==
  IF c.reconnectAttempts < maxAttempts
  THEN attemptReconnect(setConnectionState(c, "reconnecting"))
  ELSE handleConnectionFailure(c)

\* variant: a connected signal does not reset the attempt counter
handleIceConnectionStateChange_NoReset(c, state) ==
  CASE state = "checking" -> setConnectionState(c, "connecting")
    [] state \in {"connected", "completed"} ->
         [setConnectionState(c, "connected") EXCEPT !.discCount = 0]
    [] state = "disconnected" ->
         handleDisconnection(
           [c EXCEPT !.discCount = IF @ < 0 THEN @
                                   ELSE Min(@ + 1, maxAttempts + 1)])
    [] state = "failed" -> handleConnectionFailure(c)
    [] state = "closed" -> setConnectionState(c, "disconnected")
    [] OTHER -> c

\* state is what the handler reads from this.peerConnection?.iceConnectionState
handleIceConnectionStateChange(c, state) ==
  CASE state = "checking" -> setConnectionState(c, "connecting")
    [] state \in {"connected", "completed"} ->
         [setConnectionState(c, "connected")
            EXCEPT !.reconnectAttempts = 0, !.startedSinceReset = 0,
                   !.discCount = 0]
    [] state = "disconnected" ->
         handleDisconnection(
           [c EXCEPT !.discCount = IF @ < 0 THEN @
                                   ELSE Min(@ + 1, maxAttempts + 1)])
    [] state = "failed" -> handleConnectionFailure(c)
    [] state = "closed" -> setConnectionState(c, "disconnected")
    [] OTHER -> c

\* state is what the handler reads from this.peerConnection?.connectionState
handleConnectionStateChange(c, state) ==
  IF state = "failed" THEN handleConnectionFailure(c) ELSE c

(***************************************************************************)
(* connect()                                                               *)
(***************************************************************************)
\* a peer connection that is replaced is not closed
setupPeerConnection(c) ==
  [c EXCEPT !.leakedPCs = @ \/ c.peerConnection,
            !.peerConnection = TRUE,
            !.dataChannel = "connecting",
            !.pcNegotiated = FALSE,
            !.tasks = RetagBag(@, [t \in BagToSet(c.tasks) |->
                        IF t.awaitPc = "current"
                        THEN [t EXCEPT !.awaitPc = "leaked"] ELSE t])]

\* variant: connect() without the check for an established connection
connectStart_NoGuard(c, secret, origin) ==
  LET c1 == setConnectionState([c EXCEPT !.clientSecret = secret],
                               "connecting")
      c2 == setupPeerConnection(c1)
  IN [c2 EXCEPT !.tasks = AddTask(@, Task("mic", origin, secret, "none",
                                          FALSE, 0, 0))]

\* connect() up to its await of getMicrophoneStream()
connectStart(c, secret, origin) ==
  IF c.connectionState = "connected"
  THEN c
  ELSE LET c1 == setConnectionState([c EXCEPT !.clientSecret = secret],
                                    "connecting")
           c2 == setupPeerConnection(c1)
       IN [c2 EXCEPT !.tasks = AddTask(@, Task("mic", origin, secret, "none",
                                               FALSE, 0, 0))]

\* variant: a failed connect() of the owner is retried like a reconnect
connectCatch_RetryAlways(c, t, e) ==
  LET c1 == handleError(setConnectionState(c, "failed"), e)
  IN IF c1.reconnectAttempts < maxAttempts
     THEN attemptReconnect(c1)
     ELSE handleConnectionFailure(c1)

\* variant: the catch block of attemptReconnect() always retries
connectCatch_NoLimit(c, t, e) ==
  LET c1 == handleError(setConnectionState(c, "failed"), e)
  IN IF t.origin = "reconnect" THEN attemptReconnect(c1) ELSE c1

\* the catch block of connect(), and the catch block of attemptReconnect()
\* when the rejected connect() was called from there
connectCatch(c, t, e) ==
  LET c1 == handleError(setConnectionState(c, "failed"), e)
  IN IF t.origin = "reconnect"
     THEN IF c1.reconnectAttempts < maxAttempts
          THEN attemptReconnect(c1)
          ELSE handleConnectionFailure(c1)
     ELSE c1

Suspend(c, t, loc, awaitPc) ==
  [c EXCEPT !.tasks = AddTask(@, [t EXCEPT !.loc = loc, !.awaitPc = awaitPc])]

(***************************************************************************)
(* disconnect()                                                            *)
(***************************************************************************)
\* variant: the output transcript is not cleared
disconnect_KeepTranscript(c) ==
  LET c1 == [c EXCEPT !.mediaStream = FALSE,
                      !.dataChannel = "null",
                      !.peerConnection = FALSE,
                      !.pcNegotiated = FALSE,
                      !.clientSecret = NULL,
                      !.reconnectAttempts = 0,
                      !.startedSinceReset = 0,
                      !.discCount = -1,
                      !.tasks = RetagBag(@, [t \in BagToSet(c.tasks) |->
                                  [t EXCEPT !.disc = TRUE,
                                            !.awaitPc = IF @ = "current"
                                                        THEN "closed" ELSE @]])]
  IN setTranslationState(setConnectionState(c1, "disconnected"), "idle")

disconnect(c) ==
  LET c1 == [c EXCEPT !.mediaStream = FALSE,
                      !.dataChannel = "null",
                      !.peerConnection = FALSE,
                      !.pcNegotiated = FALSE,
                      !.clientSecret = NULL,
                      !.reconnectAttempts = 0,
                      !.startedSinceReset = 0,
                      !.discCount = -1,
                      !.outputTranscript = <<>>,
                      !.tasks = RetagBag(@, [t \in BagToSet(c.tasks) |->
                                  [t EXCEPT !.disc = TRUE,
                                            !.awaitPc = IF @ = "current"
                                                        THEN "closed" ELSE @]])]
  IN setTranslationState(setConnectionState(c1, "disconnected"), "idle")

(***************************************************************************)
(* Outbound control events                                                 *)
(***************************************************************************)
ClientEventTypes == {"session.update", "response.cancel", "input_audio_buffer.clear"}

\* variant: the readyState of the channel is not checked
sendEvent_NoReadyCheck(c, type, ok) ==
  IF c.dataChannel = "null"
  THEN c
  ELSE IF ok THEN [c EXCEPT !.sent = Append(@, type)] ELSE c

\* ok: dataChannel.send() does not throw; an exception is caught and logged
sendEvent(c, type, ok) ==
  IF c.dataChannel # "open"
  THEN c
  ELSE IF ok THEN [c EXCEPT !.sent = Append(@, type)] ELSE c

\* variant: cancelling ends the turn locally
cancelResponse_EndsTurn(c, ok) ==
  setTranslationState(sendEvent(c, "response.cancel", ok), "idle")

cancelResponse(c, ok) == sendEvent(c, "response.cancel", ok)

clearInputBuffer(c, ok) == sendEvent(c, "input_audio_buffer.clear", ok)

\* the session.update built from the languages and the voice goes to
\* sendEvent, then Turn State is set to idle
startTranslation(c, ok) ==
  [setTranslationState(sendEvent(c, "session.update", ok), "idle")
     EXCEPT !.started = @ + 1]

(***************************************************************************)
(* Control-channel messages                                                *)
(*                                                                         *)
(* A payload is the text of a MessageEvent.  json tells what JSON.parse    *)
(* makes of it: "invalid" (it throws), "null", "scalar" (a number or a     *)
(* string) or "object".  For an object, type is its type field ("absent"   *)
(* when it has none), complete tells whether the fields the event type     *)
(* requires are present, text is its delta/transcript and errType its      *)
(* error.type.                                                             *)
(***************************************************************************)
Payload(json, type, complete, text, errType) ==
  [json |-> json, type |-> type, complete |-> complete, text |-> text,
   errType |-> errType]

TextEventTypes ==
  {"conversation.item.input_audio_transcription.completed",
   "response.audio_transcript.delta", "response.audio_transcript.done"}

PlainEventTypes ==
  {"session.created", "session.updated", "input_audio_buffer.speech_started",
   "input_audio_buffer.speech_stopped", "response.created", "response.done",
   "rate_limits.updated"}

ServerEventTypes == TextEventTypes \cup PlainEventTypes \cup {"error"}

\* a text is a sequence of fragments: "Boa tarde" is "Bo" followed by "a tarde"
DeltaTexts == {<<"Bo">>, <<"a tarde">>}
TranscriptTexts == {<<"Bo", "a tarde">>, <<" ">>}
Texts == DeltaTexts \cup TranscriptTexts
ErrorTypes == {"authentication_error", "invalid_request_error"}

WellFormed ==
  {Payload("object", ty, TRUE, <<>>, "") : ty \in PlainEventTypes}
  \cup {Payload("object", "response.audio_transcript.delta", TRUE, tx, "") :
          tx \in DeltaTexts}
  \cup {Payload("object", ty, TRUE, tx, "") :
          ty \in TextEventTypes \ {"response.audio_transcript.delta"},
          tx \in TranscriptTexts}
  \cup {Payload("object", "error", TRUE, <<>>, et) : et \in ErrorTypes}

Malformed ==
  {Payload(j, "absent", FALSE, <<>>, "") : j \in {"invalid", "null", "scalar"}}
  \cup {Payload("object", ty, FALSE, <<>>, "") :
          ty \in ServerEventTypes \cup {"absent", "unknown"}}

\* the value read from a field of the parsed event
Field(ev, v) == IF ev.complete THEN v ELSE UNDEFINED

\* variant: the fragment replaces the text
Concat_Overwrite(s, v) == IF v = UNDEFINED THEN <<"undefined">> ELSE v

\* string concatenation s + v
Concat(s, v) == s \o (IF v = UNDEFINED THEN <<"undefined">> ELSE v)

Throw(c) == [c EXCEPT !.threw = TRUE]

onInputTranscript(c, transcript, isFinal) ==
  IF isFinal THEN [c EXCEPT !.currentInput = transcript] ELSE c

onOutputTranscript(c, transcript, isFinal) ==
  LET c1 == [c EXCEPT !.outs = Append(@, [text |-> transcript, final |-> isFinal])]
  IN IF isFinal THEN [c1 EXCEPT !.currentOutput = transcript] ELSE c1

\* variant: the final output transcript ends the turn
processServerEvent_DoneEndsTurn(c, ev) ==
  CASE ev.json = "null" -> Throw(c)
    [] ev.json = "scalar" -> c
    [] ev.type = "session.created" -> IF ev.complete THEN c ELSE Throw(c)
    [] ev.type = "session.updated" -> c
    [] ev.type = "input_audio_buffer.speech_started" ->
         setTranslationState(c, "listening")
    [] ev.type = "input_audio_buffer.speech_stopped" ->
         setTranslationState(c, "processing")
    [] ev.type = "conversation.item.input_audio_transcription.completed" ->
         onInputTranscript(c, Field(ev, ev.text), TRUE)
    [] ev.type = "response.created" -> [c EXCEPT !.outputTranscript = <<>>]
    [] ev.type = "response.audio_transcript.delta" ->
         LET c1 == [c EXCEPT !.outputTranscript = Concat(@, Field(ev, ev.text))]
         IN setTranslationState(
              onOutputTranscript(c1, c1.outputTranscript, FALSE), "speaking")
    [] ev.type = "response.audio_transcript.done" ->
         setTranslationState(onOutputTranscript(c, Field(ev, ev.text), TRUE), "idle")
    [] ev.type = "response.done" -> setTranslationState(c, "idle")
    [] ev.type = "error" ->
         IF ev.complete
         THEN handleError(c, Error("api", ev.errType # "authentication_error"))
         ELSE Throw(c)
    [] ev.type = "rate_limits.updated" -> c
    [] OTHER -> c

\* ev is the value JSON.parse returned
processServerEvent(c, ev) ==
  CASE ev.json = "null" -> Throw(c)
    [] ev.json = "scalar" -> c
    [] ev.type = "session.created" -> IF ev.complete THEN c ELSE Throw(c)
    [] ev.type = "session.updated" -> c
    [] ev.type = "input_audio_buffer.speech_started" ->
         setTranslationState(c, "listening")
    [] ev.type = "input_audio_buffer.speech_stopped" ->
         setTranslationState(c, "processing")
    [] ev.type = "conversation.item.input_audio_transcription.completed" ->
         onInputTranscript(c, Field(ev, ev.text), TRUE)
    [] ev.type = "response.created" -> [c EXCEPT !.outputTranscript = <<>>]
    [] ev.type = "response.audio_transcript.delta" ->
         LET c1 == [c EXCEPT !.outputTranscript = Concat(@, Field(ev, ev.text))]
         IN setTranslationState(
              onOutputTranscript(c1, c1.outputTranscript, FALSE), "speaking")
    [] ev.type = "response.audio_transcript.done" ->
         onOutputTranscript(c, Field(ev, ev.text), TRUE)
    [] ev.type = "response.done" -> setTranslationState(c, "idle")
    [] ev.type = "error" ->
         IF ev.complete
         THEN handleError(c, Error("api", ev.errType # "authentication_error"))
         ELSE Throw(c)
    [] ev.type = "rate_limits.updated" -> c
    [] OTHER -> c

\* JSON.parse and processServerEvent inside try/catch: an exception leaves
\* the state as it was when it was thrown and does not leave the handler
handleDataChannelMessage(c, payload) ==
  IF payload.json = "invalid"
  THEN c
  ELSE [processServerEvent(c, payload) EXCEPT !.threw = FALSE]

(***************************************************************************)
(* The credential endpoint (app/api/realtime/session/route.ts).            *)
(*                                                                         *)
(* A JSON value is a record: t its type, s the text of a string (a         *)
(* sequence of fragments, as everywhere), a the members of an array.       *)
(* A request body is the record of the five fields validateRequest reads;  *)
(* kind tells what request.json() produced: "invalid" (it threw), "null",  *)
(* "number" or "object".  Fields missing from the body are undefined.      *)
(***************************************************************************)
JUndefined == [t |-> "undefined", s |-> <<>>, a |-> <<>>]
JNull == [t |-> "null", s |-> <<>>, a |-> <<>>]
JNumber == [t |-> "number", s |-> <<>>, a |-> <<>>]     \* a non-zero number
JString(s) == [t |-> "string", s |-> s, a |-> <<>>]
JArray(a) == [t |-> "array", s |-> <<>>, a |-> a]

\* JavaScript truthiness of a JSON value
JTruthy(v) ==
  CASE v.t = "string" -> v.s # <<>>
    [] v.t \in {"number", "array"} -> TRUE
    [] OTHER -> FALSE

\* the characters of a fragment of instructions text
FragmentLength(f) ==
  CASE f \in {" ", "x"} -> 1
    [] f = "x*1998" -> 1998
    [] f = "x*1999" -> 1999

\* String.length
RECURSIVE Length(_)
Length(s) == IF s = <<>> THEN 0 ELSE FragmentLength(Head(s)) + Length(Tail(s))

Body(kind, instructions, voice, modalities, input, output) ==
  [kind |-> kind, instructions |-> instructions, voice |-> voice,
   modalities |-> modalities, input_audio_format |-> input,
   output_audio_format |-> output]

VALID_VOICES == {"verse", "alloy", "echo", "fable", "onyx", "nova", "shimmer"}
VALID_MODALITIES == {"text", "audio"}
VALID_AUDIO_FORMATS == {"pcm16", "g711_ulaw", "g711_alaw"}

\* a name is one fragment of text
isVoiceType(value) == Len(value) = 1 /\ value[1] \in VALID_VOICES
isModality(value) == Len(value) = 1 /\ value[1] \in VALID_MODALITIES
isAudioFormat(value) == Len(value) = 1 /\ value[1] \in VALID_AUDIO_FORMATS

Invalid(error) == [isValid |-> FALSE, error |-> error, data |-> Body("object", <<>>, <<>>, <<>>, <<>>, <<>>)]

\* the checks of one audio format field
FormatError(format) ==
  IF format.t = "undefined" THEN FALSE
  ELSE IF format.t # "string" THEN TRUE
  ELSE Trim(format.s) # <<>> /\ ~isAudioFormat(Trim(format.s))

\* the validated value of an optional string field (<<>>: left out)
Validated(field) == IF field.t = "string" THEN Trim(field.s) ELSE <<>>

\* variant: instructions of 2001 characters pass
TooLong_OffByOne(instructions) == Length(instructions) > MaxInstructionsLength + 1

\* instructions.length > 2000
TooLong(instructions) == Length(instructions) > MaxInstructionsLength

validateRequest(body) ==
  IF body.kind = "null" THEN Invalid("body")
  ELSE IF \/ ~JTruthy(body.instructions)
          \/ body.instructions.t # "string"
          \/ Length(Trim(body.instructions.s)) = 0
       THEN Invalid("instructions")
  ELSE IF TooLong(body.instructions.s)
       THEN Invalid("instructions.length")
  ELSE IF body.voice.t \notin {"undefined", "string"}
       THEN Invalid("voice.type")
  ELSE IF /\ body.voice.t = "string"
          /\ Trim(body.voice.s) # <<>>
          /\ ~isVoiceType(Trim(body.voice.s))
       THEN Invalid("voice")
  ELSE IF /\ body.modalities.t # "undefined"
          /\ (body.modalities.t # "array" \/ Len(body.modalities.a) = 0)
       THEN Invalid("modalities.empty")
  ELSE IF /\ body.modalities.t = "array"
          /\ \E i \in DOMAIN body.modalities.a : body.modalities.a[i].t # "string"
       THEN Invalid("modalities.type")
  ELSE IF /\ body.modalities.t = "array"
          /\ \E i \in DOMAIN body.modalities.a : ~isModality(body.modalities.a[i].s)
       THEN Invalid("modalities")
  ELSE IF FormatError(body.input_audio_format)
       THEN Invalid("input_audio_format")
  ELSE IF FormatError(body.output_audio_format)
       THEN Invalid("output_audio_format")
  ELSE [isValid |-> TRUE, error |-> "",
        data |-> Body("object",
                      Trim(body.instructions.s),
                      Validated(body.voice),
                      IF body.modalities.t = "array"
                        THEN [i \in DOMAIN body.modalities.a |-> body.modalities.a[i].s[1]]
                        ELSE <<>>,
                      Validated(body.input_audio_format),
                      Validated(body.output_audio_format))]

\* the rate-limit map: an entry per client key
Keys == {"127.0.0.1", "10.0.0.2"}
NoEntry == [present |-> FALSE, count |-> 0, resetTime |-> 0]
Entry(count, resetTime) == [present |-> TRUE, count |-> count, resetTime |-> resetTime]

\* variant: the request that finds the count at the maximum still passes
checkRateLimit_OneMore(m, ip, t) ==
  LET clientData == m[ip]
      fresh == [m EXCEPT ![ip] = Entry(1, t + RATE_LIMIT_WINDOW)]
  IN IF ~clientData.present THEN [allowed |-> TRUE, map |-> fresh]
     ELSE IF t > clientData.resetTime THEN [allowed |-> TRUE, map |-> fresh]
     ELSE IF clientData.count > RATE_LIMIT_MAX_REQUESTS
       THEN [allowed |-> FALSE, map |-> m]
     ELSE [allowed |-> TRUE, map |-> [m EXCEPT ![ip].count = @ + 1]]

\* variant: a denied request starts the key's window again
checkRateLimit_DenialExtends(m, ip, t) ==
  LET clientData == m[ip]
      fresh == [m EXCEPT ![ip] = Entry(1, t + RATE_LIMIT_WINDOW)]
  IN IF ~clientData.present THEN [allowed |-> TRUE, map |-> fresh]
     ELSE IF t > clientData.resetTime THEN [allowed |-> TRUE, map |-> fresh]
     ELSE IF clientData.count >= RATE_LIMIT_MAX_REQUESTS
       THEN [allowed |-> FALSE,
             map |-> [m EXCEPT ![ip].resetTime = t + RATE_LIMIT_WINDOW]]
     ELSE [allowed |-> TRUE, map |-> [m EXCEPT ![ip].count = @ + 1]]

\* checkRateLimit(ip) at time t: whether the request passes, and the map after
checkRateLimit(m, ip, t) ==
  LET clientData == m[ip]
      fresh == [m EXCEPT ![ip] = Entry(1, t + RATE_LIMIT_WINDOW)]
  IN IF ~clientData.present THEN [allowed |-> TRUE, map |-> fresh]
     ELSE IF t > clientData.resetTime THEN [allowed |-> TRUE, map |-> fresh]
     ELSE IF clientData.count >= RATE_LIMIT_MAX_REQUESTS
       THEN [allowed |-> FALSE, map |-> m]
     ELSE [allowed |-> TRUE, map |-> [m EXCEPT ![ip].count = @ + 1]]

\* request headers: "" for a header that is not sent; x-forwarded-for is
\* its comma-separated list, each member a text
Headers(cf, real, fwd) == [cf |-> cf, real |-> real, fwd |-> fwd]

getClientIP(headers) ==
  IF headers.cf # "" THEN headers.cf
  ELSE IF headers.real # "" THEN headers.real
  ELSE IF headers.fwd # <<>>
    THEN LET first == Trim(Head(headers.fwd))
         IN IF first = <<>> THEN "" ELSE first[1]
  ELSE "127.0.0.1"

\* the messages of the errors createSession can throw
UpstreamErrors == {"timeout", "quota"}

\* what createRealtimeSession can meet: the session is created, the
\* OPENAI_API_KEY variable is missing, the key is malformed, or
\* createSession throws an Error with one of the messages
Upstream == {"ok", "env_missing", "invalid_api_key"} \cup UpstreamErrors

\* an answer: error is the message taken over from a thrown Error (the
\* fixed texts of the other answers are left out)
Response(status, code, retryAfter, sessionRequested) ==
  [status |-> status, code |-> code, retryAfter |-> retryAfter,
   sessionRequested |-> sessionRequested, error |-> ""]
NoResponse == Response(0, "", "", FALSE)

\* variant: the message of the thrown Error is not passed on
createRealtimeSession_NoMessage(data, upstream) ==
  IF upstream = "ok" THEN Response(201, "", "", TRUE)
  ELSE IF upstream = "env_missing" THEN Response(500, "", "", TRUE)
  ELSE IF upstream = "invalid_api_key" THEN Response(500, "invalid_api_key", "", TRUE)
  ELSE Response(500, "openai_api_error", "", TRUE)

createRealtimeSession(data, upstream) ==
  IF upstream = "ok" THEN Response(201, "", "", TRUE)
  ELSE IF upstream = "env_missing" THEN Response(500, "", "", TRUE)
  ELSE IF upstream = "invalid_api_key" THEN Response(500, "invalid_api_key", "", TRUE)
  ELSE [Response(500, "openai_api_error", "", TRUE) EXCEPT !.error = upstream]

\* POST at time t: the answer, and the rate-limit map after
POST(m, t, headers, body, upstream) ==
  LET clientIP == getClientIP(headers)
      rate == checkRateLimit(m, clientIP, t)
      validation == validateRequest(body)
  IN [map |-> rate.map,
      response |->
        IF ~rate.allowed THEN Response(429, "rate_limit_exceeded", "60", FALSE)
        ELSE IF body.kind = "invalid" THEN Response(400, "invalid_json", "", FALSE)
        ELSE IF ~validation.isValid THEN Response(400, "validation_error", "", FALSE)
        ELSE createRealtimeSession(validation.data, upstream)]

\* the endpoint before its first request
RouteIdle ==
  /\ rateLimitMap = [k \in Keys |-> NoEntry]
  /\ now = 0
  /\ ticks = 0
  /\ requestBody = Body("invalid", JUndefined, JUndefined, JUndefined, JUndefined, JUndefined)
  /\ response = NoResponse
  /\ windowOpened = [k \in Keys |-> -1]
  /\ windowPassed = [k \in Keys |-> 0]
  /\ denied = [k \in Keys |-> FALSE]

(***************************************************************************)
(* The image translation service (translateImage).  An image is a string:  *)
(* prefix is what it starts with, chars the number of base64 characters    *)
(* that follow.                                                            *)
(***************************************************************************)
Image(prefix, chars) == [prefix |-> prefix, chars |-> chars]

DataPrefixes ==
  {"", "data:image/png;base64,", "data:image/jpeg;base64,",
   "data:image/svg+xml;base64,"}

PrefixLength(prefix) ==
  CASE prefix = "" -> 0
    [] prefix = "data:image/png;base64," -> 22
    [] prefix = "data:image/jpeg;base64," -> 23
    [] prefix = "data:image/svg+xml;base64," -> 26

\* the prefix matches /^data:image\/[a-z]+;base64,/
MatchesDataPrefix(prefix) ==
  prefix \in {"data:image/png;base64,", "data:image/jpeg;base64,"}

\* variant: the size is rounded down
estimateBase64Size_Floor(base64) ==
  LET pureBase64 == IF MatchesDataPrefix(base64.prefix) THEN base64.chars
                    ELSE PrefixLength(base64.prefix) + base64.chars
  IN (pureBase64 * 3) \div 4

\* Math.ceil((pureBase64.length * 3) / 4)
estimateBase64Size(base64) ==
  LET pureBase64 == IF MatchesDataPrefix(base64.prefix) THEN base64.chars
                    ELSE PrefixLength(base64.prefix) + base64.chars
  IN (pureBase64 * 3 + 3) \div 4

\* the server configuration, and what the vision client does when called
Environments == {"valid", "env_missing", "invalid_api_key"}
VisionOutcomes == {"ok", "throws"}

ImageResult(ok, status, visionCalled) ==
  [ok |-> ok, status |-> status, visionCalled |-> visionCalled]
NoImageResult == ImageResult(FALSE, 0, FALSE)

translateImage(request, env, vision) ==
  IF env = "env_missing" THEN ImageResult(FALSE, 500, FALSE)
  ELSE IF env = "invalid_api_key" THEN ImageResult(FALSE, 500, FALSE)
  ELSE IF estimateBase64Size(request) > MAX_IMAGE_SIZE
    THEN ImageResult(FALSE, 413, FALSE)
  ELSE IF vision = "ok" THEN ImageResult(TRUE, 200, TRUE)
  ELSE ImageResult(FALSE, 500, TRUE)

\* no image request yet
ImageIdle ==
  /\ image = Image("", 0)
  /\ imageResult = NoImageResult

(***************************************************************************)
(* The hook's connect() and disconnect() seen from outside the client      *)
(* (useRealtimeTranslation.ts).  hook is the record of                     *)
(*   connectionStateRef  connectionStateRef.current                        *)
(*   clientRef           0 for null, or the number of the client held      *)
(*   clients             the Connection State of every client created, in  *)
(*                       the order of creation                             *)
(*   calls               bag of connect() invocations in progress: loc is  *)
(*                       "fetch" (awaiting the credential response) or     *)
(*                       "connect" (awaiting client.connect()), client the *)
(*                       number of the client the invocation created       *)
(*   requests            credential requests sent so far                   *)
(* Every client created reports its state changes to the same callback,    *)
(* which writes connectionStateRef.                                        *)
(***************************************************************************)
HookIdle ==
  hook = [connectionStateRef |-> "disconnected", clientRef |-> 0,
          clients |-> <<>>, calls |-> EmptyBag, requests |-> 0]

HookCall(loc, client) == [loc |-> loc, client |-> client]

\* connect() up to its first await: the guard, then the credential request
hookConnect(h) ==
  IF h.connectionStateRef \in {"connecting", "connected"}
    THEN h
  ELSE [h EXCEPT !.requests = @ + 1,
                 !.calls = AddTask(@, HookCall("fetch", 0))]

\* the catch block of connect()
hookConnectCatch(h) == [h EXCEPT !.connectionStateRef = "failed"]

\* the credential response arrived: on success the client is created,
\* stored in clientRef and its connect() begins (Connection State
\* connecting); otherwise the catch block runs
hookCredential(h, t, ok) ==
  LET h1 == [h EXCEPT !.calls = RemoveTask(@, t)]
      n == Len(h.clients) + 1
  IN IF ok
       THEN [h1 EXCEPT !.clients = Append(@, "connecting"),
                       !.clientRef = n,
                       !.connectionStateRef = "connecting",
                       !.calls = AddTask(@, HookCall("connect", n))]
     ELSE hookConnectCatch(h1)

\* client.connect() of the invocation settled: resolved, startTranslation
\* follows; rejected, the client has reported failed and the catch block
\* runs
hookClientConnect(h, t, ok) ==
  LET h1 == [h EXCEPT !.calls = RemoveTask(@, t)]
  IN IF ok THEN h1
     ELSE hookConnectCatch([h1 EXCEPT !.clients[t.client] = "failed",
                                      !.connectionStateRef = "failed"])

\* onConnectionStateChange called by client i
hookStateChange(h, i, state) ==
  [h EXCEPT !.clients[i] = state, !.connectionStateRef = state]

\* disconnect() of the hook
hookDisconnect(h) ==
  LET h1 == IF h.clientRef # 0
              THEN [hookStateChange(h, h.clientRef, "disconnected")
                      EXCEPT !.clientRef = 0]
            ELSE h
  IN [h1 EXCEPT !.connectionStateRef = "disconnected"]

(***************************************************************************)
(* The state machine                                                       *)
(***************************************************************************)
\* the client right after construction by the hook's connect()
ClientInit ==
  /\ peerConnection = FALSE
  /\ dataChannel = "null"
  /\ mediaStream = FALSE
  /\ connectionState = "disconnected"
  /\ translationState = "idle"
  /\ reconnectAttempts = 0
  /\ clientSecret = NULL
  /\ outputTranscript = <<>>
  /\ currentInput = <<>>
  /\ currentOutput = <<>>
  /\ directionRef = TRUE
  /\ history = <<>>
  /\ connectCalled = FALSE
  /\ tornDown = FALSE
  /\ tasks = EmptyBag
  /\ pcNegotiated = FALSE
  /\ leakedPCs = FALSE
  /\ leakedStreams = FALSE
  /\ emitted = <<>>
  /\ startedSinceReset = 0
  /\ discCount = -1
  /\ appended = 0
  /\ sent = <<>>
  /\ started = 0

\* the fresh client, and the endpoint before its first request
Init == ClientInit /\ RouteIdle /\ ImageIdle /\ HookIdle

\* c becomes the next state
Commit(c) ==
  /\ BagCardinality(c.tasks) <= MaxTasks
  /\ Len(c.outputTranscript) <= MaxLen
  /\ c.appended <= MaxHistory
  /\ Len(c.sent) <= MaxSent
  /\ peerConnection' = c.peerConnection
  /\ dataChannel' = c.dataChannel
  /\ mediaStream' = c.mediaStream
  /\ connectionState' = c.connectionState
  /\ translationState' = c.translationState
  /\ reconnectAttempts' = c.reconnectAttempts
  /\ clientSecret' = c.clientSecret
  /\ outputTranscript' = c.outputTranscript
  /\ currentInput' = c.currentInput
  /\ currentOutput' = c.currentOutput
  /\ directionRef' = c.directionRef
  /\ history' = c.history
  /\ tasks' = c.tasks
  /\ pcNegotiated' = c.pcNegotiated
  /\ leakedPCs' = c.leakedPCs
  /\ leakedStreams' = c.leakedStreams
  /\ startedSinceReset' = c.startedSinceReset
  /\ emitted' = c.errs
  /\ discCount' = c.discCount
  /\ appended' = c.appended
  /\ sent' = c.sent
  /\ started' = c.started
  /\ connectCalled' = c.connectCalled
  /\ tornDown' = c.tornDown
  /\ UNCHANGED routeVars
  /\ UNCHANGED imageVars
  /\ UNCHANGED hook

Secrets == {"s1"}
IceStates == {"checking", "connected", "completed", "disconnected", "failed", "closed"}
PcStates == {"connected", "failed"}

Pending(loc) == {t \in BagToSet(tasks) : t.loc = loc}
Taken(t) == [Cur EXCEPT !.tasks = RemoveTask(@, t)]

\* the owner of the client calls connect(secret); the hook does so once on
\* each client it creates, right after creating it
Connect(secret) ==
  /\ ~connectCalled
  /\ Commit(connectStart([Cur EXCEPT !.connectCalled = TRUE, !.tornDown = FALSE],
                         secret, "user"))

\* the owner of the client calls disconnect()
Disconnect ==
  Commit([disconnect(Cur) EXCEPT !.tornDown = TRUE])

\* iceconnectionstatechange of the negotiated peer connection the client holds
IceSignal(state) ==
  /\ peerConnection /\ pcNegotiated
  /\ Commit(handleIceConnectionStateChange(Cur, state))

\* connectionstatechange of the negotiated peer connection the client holds
PcSignal(state) ==
  /\ peerConnection /\ pcNegotiated
  /\ Commit(handleConnectionStateChange(Cur, state))

\* a state change event of a peer connection the client no longer holds, or
\* fired before negotiation: the handlers read undefined or "new"
StaleSignal ==
  /\ ~(peerConnection /\ pcNegotiated)
  /\ LET state == IF peerConnection THEN "new" ELSE "undefined"
     IN Commit(handleConnectionStateChange(
                 handleIceConnectionStateChange(Cur, state), state))

\* variant: an event dropped while the channel was connecting is written
\* when the channel opens
DataChannelOpen_Resend ==
  /\ pcNegotiated /\ dataChannel = "connecting"
  /\ Commit([Cur EXCEPT !.dataChannel = "open",
                        !.sent = IF started > 0
                                   THEN Append(@, "session.update") ELSE @])

\* the data channel of the negotiated peer connection opens
DataChannelOpen ==
  /\ pcNegotiated /\ dataChannel = "connecting"
  /\ Commit([Cur EXCEPT !.dataChannel = "open"])

\* the backoff delay of attemptReconnect elapses: connect(this.clientSecret)
TimerExpires(t) ==
  /\ t.loc = "timer"
  /\ Commit(connectStart(Taken(t), clientSecret, "reconnect"))

\* getUserMedia settles
MicSettles(t, ok) ==
  /\ t.loc = "mic"
  /\ LET c == Taken(t)
         c1 == [c EXCEPT !.leakedStreams = @ \/ c.mediaStream,
                         !.mediaStream = TRUE]
     IN Commit(IF ~ok THEN connectCatch(c, t, AudioError)
               ELSE IF ~c1.peerConnection THEN connectCatch(c1, t, ConnectionError)
               ELSE Suspend(c1, t, "offer", "current"))

\* createOffer settles; a promise of a closed peer connection does not resolve
OfferSettles(t, ok) ==
  /\ t.loc = "offer"
  /\ ok => t.awaitPc # "closed"
  /\ LET c == Taken(t)
     IN Commit(IF ok /\ c.peerConnection THEN Suspend(c, t, "local", "current")
               ELSE connectCatch(c, t, ConnectionError))

\* setLocalDescription settles; the negotiation request is sent when it resolved
\* and the offer has an sdp
LocalSettles(t, ok) ==
  /\ t.loc = "local"
  /\ ok => t.awaitPc # "closed"
  /\ LET c == Taken(t)
     IN Commit(IF ok THEN Suspend(c, t, "fetch", "none")
               ELSE connectCatch(c, t, ConnectionError))

\* the negotiation request settles (ok: an OK response whose text was read);
\* a request that carries no credential is not answered OK
FetchSettles(t, ok) ==
  /\ t.loc = "fetch"
  /\ ok => t.secret # NULL
  /\ LET c == Taken(t)
     IN Commit(IF ok /\ c.peerConnection THEN Suspend(c, t, "remote", "current")
               ELSE connectCatch(c, t, ConnectionError))

\* setRemoteDescription settles; connect() resolves when it resolved
RemoteSettles(t, ok) ==
  /\ t.loc = "remote"
  /\ ok => t.awaitPc # "closed"
  /\ LET c == Taken(t)
     IN Commit(IF ok
               THEN [c EXCEPT !.pcNegotiated = @ \/ t.awaitPc = "current"]
               ELSE connectCatch(c, t, ConnectionError))

\* a promise of a peer connection closed by disconnect() never settles
NeverSettles(t) ==
  /\ t.awaitPc = "closed"
  /\ Commit(Taken(t))

\* a message arrives on the open data channel
Message(payload) ==
  /\ dataChannel = "open"
  /\ Commit(handleDataChannelMessage(Cur, payload))

\* a message of the session that disconnect() tore down is delivered late
StaleMessage(payload) ==
  /\ tornDown
  /\ dataChannel = "null"
  /\ Commit(handleDataChannelMessage(Cur, payload))

\* the error event of the data channel
ChannelError ==
  /\ dataChannel # "null"
  /\ Commit(handleError(Cur, DataChannelError))

Next ==
  \/ \E secret \in Secrets : Connect(secret)
  \/ Disconnect
  \/ \E state \in IceStates : IceSignal(state)
  \/ \E state \in PcStates : PcSignal(state)
  \/ StaleSignal
  \/ DataChannelOpen
  \/ \E t \in BagToSet(tasks) : TimerExpires(t)
  \/ \E t \in BagToSet(tasks), ok \in BOOLEAN : MicSettles(t, ok)
  \/ \E t \in BagToSet(tasks), ok \in BOOLEAN : OfferSettles(t, ok)
  \/ \E t \in BagToSet(tasks), ok \in BOOLEAN : LocalSettles(t, ok)
  \/ \E t \in BagToSet(tasks), ok \in BOOLEAN : FetchSettles(t, ok)
  \/ \E t \in BagToSet(tasks), ok \in BOOLEAN : RemoteSettles(t, ok)
  \/ \E t \in BagToSet(tasks) : NeverSettles(t)
  \/ ChannelError

Spec == Init /\ [][Next]_vars

(***************************************************************************)
(* The established session: connect() resolved, ICE connected, the data    *)
(* channel open.  SpecTurns lets messages and transport signals arrive on  *)
(* it and the owner disconnect.                                            *)
(***************************************************************************)
InitTurns ==
  /\ peerConnection = TRUE
  /\ dataChannel = "open"
  /\ mediaStream = TRUE
  /\ connectionState = "connected"
  /\ translationState = "idle"
  /\ reconnectAttempts = 0
  /\ clientSecret = "s1"
  /\ outputTranscript = <<>>
  /\ currentInput = <<>>
  /\ currentOutput = <<>>
  /\ directionRef = TRUE
  /\ history = <<>>
  /\ connectCalled = TRUE
  /\ tornDown = FALSE
  /\ tasks = EmptyBag
  /\ pcNegotiated = TRUE
  /\ leakedPCs = FALSE
  /\ leakedStreams = FALSE
  /\ emitted = <<>>
  /\ startedSinceReset = 0
  /\ discCount = 0
  /\ appended = 0
  /\ sent = <<>>
  /\ started = 0
  /\ RouteIdle
  /\ ImageIdle
  /\ HookIdle

\* reconnection after a disconnected signal is the subject of Spec
NextTurns ==
  \/ \E payload \in WellFormed \cup Malformed : Message(payload)
  \/ \E payload \in WellFormed \cup Malformed : StaleMessage(payload)
  \/ \E state \in IceStates \ {"disconnected"} : IceSignal(state)
  \/ \E state \in PcStates : PcSignal(state)
  \/ StaleSignal
  \/ ChannelError
  \/ Disconnect

SpecTurns == InitTurns /\ [][NextTurns]_vars

(***************************************************************************)
(* Outbound events: one session from construction to disconnect(), on      *)
(* which the owner sends control events at any time and the server reports *)
(* the turn lifecycle.                                                     *)
(***************************************************************************)
SendEvent(type, ok) == Commit(sendEvent(Cur, type, ok))

CancelResponse(ok) == Commit(cancelResponse(Cur, ok))

ClearInputBuffer(ok) == Commit(clearInputBuffer(Cur, ok))

NextSend ==
  \/ \E secret \in Secrets : Connect(secret)
  \/ \E t \in BagToSet(tasks), ok \in BOOLEAN : MicSettles(t, ok)
  \/ \E t \in BagToSet(tasks), ok \in BOOLEAN : OfferSettles(t, ok)
  \/ \E t \in BagToSet(tasks), ok \in BOOLEAN : LocalSettles(t, ok)
  \/ \E t \in BagToSet(tasks), ok \in BOOLEAN : FetchSettles(t, ok)
  \/ \E t \in BagToSet(tasks), ok \in BOOLEAN : RemoteSettles(t, ok)
  \/ \E t \in BagToSet(tasks) : NeverSettles(t)
  \/ DataChannelOpen
  \/ \E state \in IceStates \ {"disconnected"} : IceSignal(state)
  \/ Disconnect
  \/ \E type \in ClientEventTypes, ok \in BOOLEAN : SendEvent(type, ok)
  \/ \E ok \in BOOLEAN : CancelResponse(ok)
  \/ \E ok \in BOOLEAN : ClearInputBuffer(ok)
  \/ \E payload \in WellFormed :
       /\ payload.type \in PlainEventTypes \cup {"response.audio_transcript.delta"}
       /\ Message(payload)

SpecSend == Init /\ [][NextSend]_vars

(***************************************************************************)
(* The client under the hook's connect(): when the connect() the hook      *)
(* awaits resolves, the hook goes on in the same turn of the event loop    *)
(* and calls startTranslation on clientRef.current, which the hook's       *)
(* disconnect() has set to null (the call then throws into the hook's      *)
(* catch block, which does not touch the client).                          *)
(***************************************************************************)
HookConnectReturns(t, ok) ==
  /\ t.loc = "remote" /\ t.origin = "user"
  /\ t.awaitPc # "closed"
  /\ LET c == [Taken(t) EXCEPT !.pcNegotiated = @ \/ t.awaitPc = "current"]
     IN Commit(IF c.tornDown THEN c ELSE startTranslation(c, ok))

NextStart ==
  \/ \E secret \in Secrets : Connect(secret)
  \/ Disconnect
  \/ \E state \in IceStates : IceSignal(state)
  \/ \E state \in PcStates : PcSignal(state)
  \/ StaleSignal
  \/ DataChannelOpen
  \/ \E t \in BagToSet(tasks) : TimerExpires(t)
  \/ \E t \in BagToSet(tasks), ok \in BOOLEAN : MicSettles(t, ok)
  \/ \E t \in BagToSet(tasks), ok \in BOOLEAN : OfferSettles(t, ok)
  \/ \E t \in BagToSet(tasks), ok \in BOOLEAN : LocalSettles(t, ok)
  \/ \E t \in BagToSet(tasks), ok \in BOOLEAN : FetchSettles(t, ok)
  \/ \E t \in BagToSet(tasks), ok \in BOOLEAN :
       (t.origin = "user" => ~ok) /\ RemoteSettles(t, ok)
  \/ \E t \in BagToSet(tasks), ok \in BOOLEAN : HookConnectReturns(t, ok)
  \/ \E t \in BagToSet(tasks) : NeverSettles(t)
  \/ \E ok \in BOOLEAN : CancelResponse(ok)

SpecStart == Init /\ [][NextStart]_vars

(***************************************************************************)
(* The credential endpoint.  A POST runs to its first await with the rate  *)
(* check done; what follows reads and writes nothing that another request  *)
(* can see, so one request is one step.                                    *)
(***************************************************************************)
clientVars == <<peerConnection, dataChannel, mediaStream, connectionState,
                translationState, reconnectAttempts, clientSecret,
                outputTranscript, currentInput, currentOutput, directionRef,
                history, connectCalled, tornDown, tasks, pcNegotiated,
                leakedPCs, leakedStreams, emitted, startedSinceReset,
                discCount, appended, sent, started>>

\* a request arrives and is answered
Post(headers, body, upstream) ==
  LET r == POST(rateLimitMap, now, headers, body, upstream)
      ip == getClientIP(headers)
      opens == windowOpened[ip] < 0 \/ now > windowOpened[ip] + RATE_LIMIT_WINDOW
      passed == IF r.response.status = 429 THEN 0 ELSE 1
  IN /\ rateLimitMap' = r.map
     /\ response' = r.response
     /\ requestBody' = body
     /\ windowOpened' = IF opens THEN [windowOpened EXCEPT ![ip] = now] ELSE windowOpened
     /\ windowPassed' = [windowPassed EXCEPT ![ip] = (IF opens THEN 0 ELSE @) + passed]
     /\ denied' = [denied EXCEPT ![ip] = @ \/ passed = 0]
     /\ UNCHANGED <<now, ticks, clientVars, imageVars, hook>>

\* the server clock advances
TickSteps == {1, RATE_LIMIT_WINDOW}

Tick(d) ==
  /\ ticks < MaxTicks
  /\ now' = now + d
  /\ ticks' = ticks + 1
  /\ UNCHANGED <<rateLimitMap, requestBody, response, windowOpened, windowPassed, denied,
                 clientVars, imageVars, hook>>

NoHeaders == Headers("", "", <<>>)

RouteHeaders ==
  {NoHeaders,
   Headers("10.0.0.2", "127.0.0.1", <<>>),
   Headers("", "", <<<<" ", "10.0.0.2">>, <<"127.0.0.1">>>>)}

ObjectBody(instructions, voice, modalities, input, output) ==
  Body("object", instructions, voice, modalities, input, output)
NotJSON == Body("invalid", JUndefined, JUndefined, JUndefined, JUndefined, JUndefined)

RouteBodies ==
  {ObjectBody(JString(<<"x">>), JString(<<"verse">>),
              JArray(<<JString(<<"text">>), JString(<<"audio">>)>>),
              JUndefined, JUndefined),
   NotJSON}

NextRoute ==
  \/ \E headers \in RouteHeaders, body \in RouteBodies,
        upstream \in {"ok", "timeout"} :
       Post(headers, body, upstream)
  \/ \E d \in TickSteps : Tick(d)

SpecRoute == Init /\ [][NextRoute]_vars

(***************************************************************************)
(* Request validation: one client key sends the same body again and again. *)
(***************************************************************************)
InstructionsValues ==
  {JUndefined, JNull, JNumber, JArray(<<>>),
   JString(<<>>), JString(<<" ">>), JString(<<"x">>), JString(<<" ", "x", " ">>),
   JString(<<"x*1999", "x">>),              \* 2000 characters
   JString(<<"x*1999", "x", " ">>),         \* 2001, 2000 when trimmed
   JString(<<"x*1999", "x", "x">>)}         \* 2001

VoiceValues ==
  {JUndefined, JNull, JNumber, JString(<<>>), JString(<<" ">>),
   JString(<<" ", "alloy">>), JString(<<"robot">>)}
  \cup {JString(<<v>>) : v \in VALID_VOICES}

ModalitiesValues ==
  {JUndefined, JNull, JString(<<"text">>), JArray(<<>>),
   JArray(<<JString(<<"text">>)>>), JArray(<<JString(<<"audio">>)>>),
   JArray(<<JString(<<"text">>), JString(<<"audio">>)>>),
   JArray(<<JString(<<"video">>)>>),
   JArray(<<JString(<<"text">>), JString(<<"video">>)>>),
   JArray(<<JNumber>>),
   JArray(<<JString(<<"audio">>), JNull>>)}

InputFormatValues == {JUndefined, JString(<<"mp3">>)}
OutputFormatValues == {JUndefined, JString(<<"g711_ulaw">>)}

Bodies ==
  {ObjectBody(i, v, m, fi, fo) :
     i \in InstructionsValues, v \in VoiceValues, m \in ModalitiesValues,
     fi \in InputFormatValues, fo \in OutputFormatValues}
  \cup {NotJSON,
        Body("null", JUndefined, JUndefined, JUndefined, JUndefined, JUndefined),
        Body("number", JUndefined, JUndefined, JUndefined, JUndefined, JUndefined)}

InitValidate ==
  /\ ClientInit
  /\ rateLimitMap = [k \in Keys |-> NoEntry]
  /\ now = 0
  /\ ticks = 0
  /\ requestBody \in Bodies
  /\ response = NoResponse
  /\ windowOpened = [k \in Keys |-> -1]
  /\ windowPassed = [k \in Keys |-> 0]
  /\ denied = [k \in Keys |-> FALSE]
  /\ ImageIdle
  /\ HookIdle

NextValidate == \E upstream \in Upstream : Post(NoHeaders, requestBody, upstream)

SpecValidate == InitValidate /\ [][NextValidate]_vars

(***************************************************************************)
(* Image translation: requests with one image, small or around the size    *)
(* ceiling.                                                                *)
(***************************************************************************)
\* the most base64 characters whose estimate is within MAX_IMAGE_SIZE
CeilingChars == (MAX_IMAGE_SIZE * 4) \div 3

ImageChars ==
  {4, 1000, 2 * CeilingChars}
  \cup {CeilingChars + d : d \in {-27, -26, -25, -23, -22, -21, -1, 0, 1, 2}}

Images == {Image(prefix, chars) : prefix \in DataPrefixes, chars \in ImageChars}

TranslateImage(env, vision) ==
  /\ imageResult' = translateImage(image, env, vision)
  /\ UNCHANGED <<image, clientVars, routeVars, hook>>

InitImage ==
  /\ ClientInit
  /\ RouteIdle
  /\ image \in Images
  /\ imageResult = NoImageResult
  /\ HookIdle

NextImage == \E env \in Environments, vision \in VisionOutcomes : TranslateImage(env, vision)

SpecImage == InitImage /\ [][NextImage]_vars

(***************************************************************************)
(* The hook: the caller calls connect() and disconnect() at any time, the  *)
(* credential response and client.connect() settle, the clients created    *)
(* report their transport signals.                                         *)
(***************************************************************************)
HookConnectCall ==
  /\ hook.requests < MaxRequests
  /\ hook' = hookConnect(hook)
  /\ UNCHANGED <<clientVars, serverVars>>

HookCredentialSettles(t, ok) ==
  /\ t \in BagToSet(hook.calls) /\ t.loc = "fetch"
  /\ hook' = hookCredential(hook, t, ok)
  /\ UNCHANGED <<clientVars, serverVars>>

HookClientConnectSettles(t, ok) ==
  /\ t \in BagToSet(hook.calls) /\ t.loc = "connect"
  /\ hook.clients[t.client] = "connecting"
  /\ hook' = hookClientConnect(hook, t, ok)
  /\ UNCHANGED <<clientVars, serverVars>>

\* a client that was not disconnected sees its transport connected or failed
HookClientSignal(i, state) ==
  /\ i \in DOMAIN hook.clients
  /\ hook.clients[i] \in {"connecting", "connected"}
  /\ hook' = hookStateChange(hook, i, state)
  /\ UNCHANGED <<clientVars, serverVars>>

HookDisconnect ==
  /\ hook' = hookDisconnect(hook)
  /\ UNCHANGED <<clientVars, serverVars>>

NextHook ==
  \/ HookConnectCall
  \/ \E t \in BagToSet(hook.calls), ok \in BOOLEAN : HookCredentialSettles(t, ok)
  \/ \E t \in BagToSet(hook.calls), ok \in BOOLEAN : HookClientConnectSettles(t, ok)
  \/ \E i \in 1..MaxRequests, state \in {"connected", "failed"} : HookClientSignal(i, state)
  \/ HookDisconnect

SpecHook == Init /\ [][NextHook]_vars

(***************************************************************************)
(* The connection lifecycle under fair scheduling: a backoff timer that    *)
(* was started expires, every promise connect() awaits settles one way or  *)
(* the other (unless its peer connection was closed), and the transport of *)
(* a negotiated peer connection whose connect() has returned reports       *)
(* connected or failed.                                                    *)
(***************************************************************************)
TransportOutcome ==
  /\ connectionState = "connecting" /\ pcNegotiated /\ tasks = EmptyBag
  /\ (IceSignal("connected") \/ IceSignal("failed"))

Fairness ==
  /\ WF_vars(\E t \in BagToSet(tasks) : TimerExpires(t))
  /\ WF_vars(\E t \in BagToSet(tasks), ok \in BOOLEAN : MicSettles(t, ok))
  /\ WF_vars(\E t \in BagToSet(tasks), ok \in BOOLEAN : OfferSettles(t, ok))
  /\ WF_vars(\E t \in BagToSet(tasks), ok \in BOOLEAN : LocalSettles(t, ok))
  /\ WF_vars(\E t \in BagToSet(tasks), ok \in BOOLEAN : FetchSettles(t, ok))
  /\ WF_vars(\E t \in BagToSet(tasks), ok \in BOOLEAN : RemoteSettles(t, ok))
  /\ WF_vars(TransportOutcome)

SpecLive == Spec /\ Fairness

(***************************************************************************)
(* Turn assembly and History: the established session of a hook whose      *)
(* History is empty or already holds HistoryCap records of earlier         *)
(* sessions.  Well-formed events and transport signals arrive, and the     *)
(* caller can call the hook's connect() again.                             *)
(***************************************************************************)
\* the k-th record of an earlier session
SeedRecord(k) == [inputText |-> <<ToString(k)>>, outputText |-> <<"Bo", "a tarde">>]

SeedHistory == [k \in 1..HistoryCap |-> SeedRecord(k)]

\* connect() of the hook up to its await of the credential request
HookConnect ==
  /\ connectionState \notin {"connecting", "connected"}
  /\ Commit([Cur EXCEPT !.currentInput = <<>>, !.currentOutput = <<>>,
                         !.directionRef = TRUE])

InitHistory ==
  /\ peerConnection = TRUE
  /\ dataChannel = "open"
  /\ mediaStream = TRUE
  /\ connectionState = "connected"
  /\ translationState = "idle"
  /\ reconnectAttempts = 0
  /\ clientSecret = "s1"
  /\ outputTranscript = <<>>
  /\ currentInput = <<>>
  /\ currentOutput = <<>>
  /\ directionRef = TRUE
  /\ history \in {<<>>, SeedHistory}
  /\ connectCalled = TRUE
  /\ tornDown = FALSE
  /\ tasks = EmptyBag
  /\ pcNegotiated = TRUE
  /\ leakedPCs = FALSE
  /\ leakedStreams = FALSE
  /\ emitted = <<>>
  /\ startedSinceReset = 0
  /\ discCount = 0
  /\ appended = 0
  /\ sent = <<>>
  /\ started = 0
  /\ RouteIdle
  /\ ImageIdle
  /\ HookIdle

NextHistory ==
  \/ \E payload \in WellFormed : Message(payload)
  \/ \E state \in IceStates \ {"disconnected"} : IceSignal(state)
  \/ \E state \in PcStates : PcSignal(state)
  \/ HookConnect

SpecHistory == InitHistory /\ [][NextHistory]_vars

(***************************************************************************)
(* Properties                                                              *)
(***************************************************************************)
TableState(state, attempts) ==
  CASE state = "checking" -> "connecting"
    [] state \in {"connected", "completed"} -> "connected"
    [] state = "disconnected" -> IF attempts < 3 THEN "reconnecting" ELSE "failed"
    [] state = "failed" -> "failed"
    [] state = "closed" -> "disconnected"

TableErrors(state, attempts) ==
  IF state = "failed" \/ (state = "disconnected" /\ attempts >= 3)
  THEN <<[type |-> "connection", recoverable |-> FALSE]>>
  ELSE <<>>

\* C1: every ICE signal moves Connection State as the table of the session
\* state machine says (checking -> connecting; connected/completed ->
\* connected with the attempt counter reset to 0; disconnected ->
\* reconnecting below 3 attempts, else failed with one non-recoverable
\* connection error; failed -> failed with that error; closed ->
\* disconnected), and Connection State is always one of the five values.
C1_SignalTable ==
  /\ [](connectionState \in ConnectionStates)
  /\ [][\A state \in IceStates :
          IceSignal(state) =>
            /\ connectionState' = TableState(state, reconnectAttempts)
            /\ emitted' = TableErrors(state, reconnectAttempts)
            /\ state \in {"connected", "completed"} => reconnectAttempts' = 0]_vars

\* a disconnected signal below the limit has moved the session to reconnecting
C1_Witness ==
  /\ connectionState = "reconnecting"
  /\ reconnectAttempts = 2
  /\ discCount = 2
  /\ emitted = <<>>

\* C2: the attempt counter stays within 0..3 and at most 3 reconnection
\* attempts are started between two resets of the counter.
C2_AttemptsBounded ==
  /\ reconnectAttempts \in 0..3
  /\ startedSinceReset \in 0..3

\* the third attempt was started by the catch block of a failed reconnect
C2_Witness ==
  /\ reconnectAttempts = 3
  /\ startedSinceReset = 3
  /\ discCount \in 0..2
  /\ \E t \in BagToSet(tasks) : t.loc = "timer" /\ t.n = 3

\* C3: the delay before the n-th attempt is 1000, 2000, 4000 ms for
\* n = 1, 2, 3, that is min(1000 * 2^(n-1), 10000), also when several
\* reconnect chains are pending.
C3_BackoffDelay ==
  \A t \in BagToSet(tasks) :
    t.loc = "timer" =>
      /\ t.n \in 1..3
      /\ t.delay = (CASE t.n = 1 -> 1000 [] t.n = 2 -> 2000 [] t.n = 3 -> 4000)

\* two chains started by separate disconnected signals wait at once
C3_Witness ==
  \E t, u \in BagToSet(tasks) :
    /\ t.loc = "timer" /\ t.n = 2 /\ t.delay = 2000
    /\ u.loc = "timer" /\ u.n = 3 /\ u.delay = 4000

\* C4 as stated: the third consecutive disconnected signal of a connected
\* session that holds a credential leaves Connection State failed and emits
\* one non-recoverable connection error.
C4_ThirdSignalFails ==
  [][(IceSignal("disconnected") /\ discCount = 2 /\ clientSecret # NULL) =>
       (connectionState' = "failed"
        /\ emitted' = <<[type |-> "connection", recoverable |-> FALSE]>>)]_vars

\* C4 amended: with no connected signal and no failed reconnection attempt
\* in between (the attempt counter equals the number of disconnected
\* signals), each of the first three disconnected signals leaves Connection
\* State reconnecting, raises the counter by one and emits no error; the
\* fourth sets failed and emits exactly one non-recoverable connection error.
C4_FourthSignalFails ==
  [][(IceSignal("disconnected") /\ discCount >= 0 /\ clientSecret # NULL
      /\ reconnectAttempts = discCount) =>
       IF discCount < 3
       THEN /\ connectionState' = "reconnecting"
            /\ reconnectAttempts' = discCount + 1
            /\ emitted' = <<>>
       ELSE /\ connectionState' = "failed"
            /\ emitted' = <<[type |-> "connection", recoverable |-> FALSE]>>]_vars

\* the fourth consecutive disconnected signal has failed the session
C4_Witness ==
  /\ discCount = 4
  /\ reconnectAttempts = 3
  /\ connectionState = "failed"
  /\ translationState = "error"
  /\ emitted = <<[type |-> "connection", recoverable |-> FALSE]>>

\* C5: once disconnect() has been called and every pending continuation has
\* run, every captured media track is stopped and Connection State is
\* disconnected.
C5_DisconnectReleasesAll ==
  (tornDown /\ tasks = EmptyBag) =>
    (~mediaStream /\ ~leakedStreams /\ connectionState = "disconnected")

\* C6: when disconnect() was called while the owner's connect() was in
\* flight, the completion of its negotiation request changes nothing:
\* Connection State stays disconnected, Turn State idle, no error is emitted.
C6_LateNegotiationIgnored ==
  [][\A t \in BagToSet(tasks), ok \in BOOLEAN :
       (t.origin = "user" /\ t.disc /\ FetchSettles(t, ok)) =>
         (connectionState' = "disconnected" /\ translationState' = "idle"
          /\ emitted' = <<>>)]_vars

\* C7: when disconnect() was called during the backoff delay, the expiry of
\* the delay starts no connection attempt: no peer connection is created, no
\* invocation is suspended on the microphone or the negotiation request, and
\* Connection State stays disconnected.
C7_DisconnectCancelsReconnect ==
  [][\A t \in BagToSet(tasks) :
       (t.disc /\ TimerExpires(t)) =>
         (~peerConnection' /\ connectionState' = "disconnected"
          /\ tasks' = RemoveTask(tasks, t))]_vars

\* C8: after disconnect(), a transport signal or a control-channel message of
\* the torn-down session leaves Connection State, Turn State, the output
\* transcript buffer, the pending turn buffers and History unchanged.
C8_StaleCallbacksIgnored ==
  [][(tornDown /\ (StaleSignal \/ \E p \in WellFormed \cup Malformed : StaleMessage(p))) =>
       UNCHANGED <<connectionState, translationState, outputTranscript,
                   currentInput, currentOutput, history>>]_vars

\* C9: from every reachable state disconnect() leaves the credential null,
\* the attempt counter 0, the output transcript empty, Connection State
\* disconnected, Turn State idle and no stream, channel or peer connection
\* held; a second call right after changes none of these and fires no
\* state-change callback.
C9_DisconnectIdempotent ==
  LET Reset(c) ==
        /\ c.clientSecret = NULL
        /\ c.reconnectAttempts = 0
        /\ c.outputTranscript = <<>>
        /\ c.connectionState = "disconnected"
        /\ c.translationState = "idle"
        /\ ~c.mediaStream
        /\ c.dataChannel = "null"
        /\ ~c.peerConnection
      c1 == disconnect(Cur)
      c2 == disconnect([c1 EXCEPT !.changes = 0, !.errs = <<>>])
  IN Reset(c1) /\ Reset(c2) /\ c2.changes = 0 /\ c2.errs = <<>>

\* disconnect() has reset a session that had recorded a turn
C9_Witness ==
  /\ tornDown
  /\ emitted = <<>>
  /\ history # <<>>
  /\ clientSecret = NULL
  /\ connectionState = "disconnected"
  /\ translationState = "idle"
  /\ outputTranscript = <<>>
  /\ ~peerConnection /\ ~mediaStream /\ dataChannel = "null"

\* C10: a payload that is not a well-formed server event leaves the handler
\* without an exception and leaves Connection State and Turn State as they
\* were.
C10_MalformedIgnored ==
  [][\A p \in Malformed :
       Message(p) =>
         (~handleDataChannelMessage(Cur, p).threw
          /\ connectionState' = connectionState
          /\ translationState' = translationState)]_vars

(***************************************************************************)
(* Turn assembly and History                                               *)
(***************************************************************************)
Event(type, text) == Payload("object", type, TRUE, text, "")

\* the client after the messages of events arrived in order
RECURSIVE Deliver(_, _)
Deliver(c, events) ==
  IF events = <<>> THEN c
  ELSE Deliver(handleDataChannelMessage(c, Head(events)), Tail(events))

InsertAt(events, i, e) ==
  SubSeq(events, 1, i) \o <<e>> \o SubSeq(events, i + 1, Len(events))

BoaTarde == <<"Bo", "a tarde">>

ScenarioEvents ==
  << Event("input_audio_buffer.speech_started", <<>>),
     Event("input_audio_buffer.speech_stopped", <<>>),
     Event("response.audio_transcript.delta", <<"Bo">>),
     Event("response.audio_transcript.delta", <<"a tarde">>),
     Event("response.audio_transcript.done", BoaTarde),
     Event("response.done", <<>>) >>

InputEvent ==
  Event("conversation.item.input_audio_transcription.completed", BoaTarde)

\* the session right after connect(), nothing received yet
JustConnected ==
  /\ connectionState = "connected" /\ dataChannel = "open"
  /\ translationState = "idle" /\ directionRef
  /\ history = <<>> /\ outputTranscript = <<>>
  /\ currentInput = <<>> /\ currentOutput = <<>>

\* C11 as stated: after connect, speech_started, speech_stopped, the deltas
\* "Bo" and "a tarde", transcript done "Boa tarde" and response.done on an
\* empty History, History holds exactly one record with output "Boa tarde".
C11_ScenarioAsStated ==
  JustConnected =>
    LET c == Deliver(Cur, ScenarioEvents)
    IN Len(c.history) = 1 /\ c.history[1].outputText = BoaTarde

\* C11 amended: the record needs a final input transcript.  With a
\* non-blank input transcription completed event anywhere between
\* speech_started and response.done, History ends with exactly one record,
\* holding that input and the output "Boa tarde"; without one, History
\* stays empty.
C11_ScenarioWithInput ==
  JustConnected =>
    /\ \A i \in 1..(Len(ScenarioEvents) - 1) :
         Deliver(Cur, InsertAt(ScenarioEvents, i, InputEvent)).history
           = <<[inputText |-> BoaTarde, outputText |-> BoaTarde]>>
    /\ Deliver(Cur, ScenarioEvents).history = <<>>

\* the turn of the scenario has been recorded
C11_Witness ==
  /\ history = <<[inputText |-> BoaTarde, outputText |-> BoaTarde]>>
  /\ appended = 1
  /\ translationState = "idle"
  /\ outputTranscript = BoaTarde
  /\ currentInput = <<>> /\ currentOutput = <<>>
  /\ connectionState = "connected"

\* C12: when speech_started arrives while the previous turn has a non-empty
\* input transcript and an output built only from delta fragments (no
\* transcript done received), a record holding that input and the partial
\* output is appended to History before the pending buffers are cleared.
C12_PartialOutputFlushed ==
  [][(/\ Message(Event("input_audio_buffer.speech_started", <<>>))
      /\ translationState # "listening"
      /\ directionRef
      /\ Truthy(currentInput) /\ Trim(currentInput) # <<>>
      /\ currentOutput = <<>>
      /\ outputTranscript # <<>>) =>
       (/\ appended' = appended + 1
        /\ history'[Len(history')]
             = [inputText |-> currentInput, outputText |-> outputTranscript]
        /\ currentInput' = <<>> /\ currentOutput' = <<>>)]_vars

\* C13: every completed turn (final input and final output received, then
\* response.done) adds exactly one record to History, the pair of that turn
\* as the newest record, so that records follow the order of completion.
C13_OneRecordPerTurn ==
  [][(/\ Message(Event("response.done", <<>>))
      /\ directionRef
      /\ Truthy(currentInput) /\ Truthy(currentOutput)) =>
       (/\ appended' = appended + 1
        /\ history'[Len(history')]
             = [inputText |-> currentInput, outputText |-> currentOutput])]_vars

\* C14: History never holds more than 100 records, and a record appended to
\* a History of exactly 100 removes the oldest record and keeps the other 99
\* in their order, followed by the new one.
C14_HistoryCap ==
  /\ [](Len(history) <= 100)
  /\ [][(appended' = appended + 1 /\ Len(history) = 100) =>
          (/\ Len(history') = 100
           /\ \A i \in 1..99 : history'[i] = history[i + 1]
           /\ history'[100]
                = [inputText |-> currentInput, outputText |-> currentOutput])]_vars

\* a record was appended to a History of 100: the oldest one is gone
C14_Witness ==
  /\ appended = 1
  /\ Len(history) = 100
  /\ history[1] = SeedRecord(2)
  /\ history[99] = SeedRecord(100)
  /\ history[100] = [inputText |-> BoaTarde, outputText |-> BoaTarde]

\* C15: whenever the pending turn buffers are cleared while both hold a
\* (non-blank) text, by a listening signal, by turn completion or by a new
\* connect(), a History record holding exactly that pair has been appended
\* first.
C15_FlushBeforeClear ==
  [][(/\ directionRef
      /\ Truthy(currentInput) /\ Trim(currentInput) # <<>>
      /\ Truthy(currentOutput) /\ Trim(currentOutput) # <<>>
      /\ currentInput' = <<>> /\ currentOutput' = <<>>) =>
       (/\ appended' = appended + 1
        /\ history'[Len(history')]
             = [inputText |-> currentInput, outputText |-> currentOutput])]_vars

(***************************************************************************)
(* Turn State and errors                                                   *)
(***************************************************************************)
TurnTarget(type, current) ==
  CASE type = "input_audio_buffer.speech_started" -> "listening"
    [] type = "input_audio_buffer.speech_stopped" -> "processing"
    [] type = "response.audio_transcript.delta" -> "speaking"
    [] type = "response.done" -> "idle"
    [] OTHER -> current

\* C16: from any Turn State, speech_started yields listening, speech_stopped
\* processing, an output delta speaking and response.done idle; session,
\* input transcription, response.created, transcript done and rate limit
\* events leave Turn State as it is, and a transport signal changes Turn
\* State only when it is handled as a transport failure (Connection State
\* becomes failed).
C16_TurnStateTable ==
  /\ \A p \in WellFormed :
       p.type # "error" =>
         handleDataChannelMessage(Cur, p).translationState
           = TurnTarget(p.type, translationState)
  /\ \A state \in IceStates :
       LET c == handleIceConnectionStateChange(Cur, state)
       IN c.translationState # translationState =>
            (state \in {"failed", "disconnected"} /\ c.connectionState = "failed")
  /\ \A state \in PcStates \cup {"new", "undefined"} :
       LET c == handleConnectionStateChange(Cur, state)
       IN c.translationState # translationState =>
            (state = "failed" /\ c.connectionState = "failed")

\* an output delta has moved the turn to speaking after the final input
\* transcript left it alone
C16_Witness ==
  /\ translationState = "speaking"
  /\ outputTranscript = BoaTarde
  /\ currentInput = BoaTarde
  /\ connectionState = "connected"
  /\ emitted = <<>>

\* C17: an inbound error event of the authentication type is emitted as a
\* non-recoverable api error and sets Turn State to error; an error event of
\* any other type is emitted as a recoverable api error and leaves Turn
\* State and Connection State unchanged.
C17_RemoteErrors ==
  \A et \in ErrorTypes :
    LET c == handleDataChannelMessage(Cur, Payload("object", "error", TRUE, <<>>, et))
    IN IF et = "authentication_error"
       THEN /\ c.errs = <<[type |-> "api", recoverable |-> FALSE]>>
            /\ c.translationState = "error"
       ELSE /\ c.errs = <<[type |-> "api", recoverable |-> TRUE]>>
            /\ c.translationState = translationState
            /\ c.connectionState = connectionState

\* a recoverable remote error was emitted in the middle of a turn
C17_Witness ==
  /\ emitted = <<[type |-> "api", recoverable |-> TRUE]>>
  /\ translationState = "speaking"
  /\ connectionState = "connected"
  /\ ~tornDown

\* C18: whenever a non-recoverable error was emitted through onError, Turn
\* State is error and Connection State is failed right afterwards.
C18_NonRecoverableFails ==
  (\E i \in 1..Len(emitted) : ~emitted[i].recoverable) =>
    (translationState = "error" /\ connectionState = "failed")

\* C19: once Connection State is failed it stays failed and no connection
\* attempt is started until the caller calls connect() or disconnect(): no
\* reconnect timer is pending, and no step other than those two calls moves
\* the state out of failed.
C19_FailedIsFinal ==
  /\ [](connectionState = "failed" => Pending("timer") = {})
  /\ [][(connectionState = "failed" /\ ~Disconnect
          /\ ~(\E secret \in Secrets : Connect(secret))) =>
            connectionState' = "failed"]_vars

\* C20: when connect() fails it rejects and leaves Connection State failed;
\* a microphone failure is emitted through onError as a non-recoverable
\* audio error, a failure of a later step (offer, local description,
\* negotiation request, remote description) as a non-recoverable connection
\* error.
C20_ConnectFailure ==
  [][\A t \in BagToSet(tasks) :
       LET Failed(kind) ==
             /\ connectionState' = "failed"
             /\ Len(emitted') >= 1
             /\ emitted'[1] = [type |-> kind, recoverable |-> FALSE]
             /\ \A u \in BagToSet(tasks') : u.loc = "timer" \/ u \in BagToSet(tasks)
             /\ BagCardinality(tasks') <= BagCardinality(tasks)
       IN /\ MicSettles(t, FALSE) => Failed("audio")
          /\ (\/ OfferSettles(t, FALSE) \/ LocalSettles(t, FALSE)
              \/ FetchSettles(t, FALSE) \/ RemoteSettles(t, FALSE)) =>
               Failed("connection")]_vars

\* the owner's connect() failed at the microphone
C20_Witness ==
  /\ connectionState = "failed"
  /\ translationState = "error"
  /\ emitted = <<[type |-> "audio", recoverable |-> FALSE]>>
  /\ tasks = EmptyBag
  /\ ~mediaStream /\ ~tornDown

(***************************************************************************)
(* Reconnection policy and resources                                       *)
(***************************************************************************)
\* the invocation t of connect() fails in this step
ConnectFails(t) ==
  \/ MicSettles(t, FALSE) \/ OfferSettles(t, FALSE) \/ LocalSettles(t, FALSE)
  \/ FetchSettles(t, FALSE) \/ RemoteSettles(t, FALSE)

\* C21: a failure of the owner's connect() schedules no reconnection: the
\* attempt counter stays 0, no backoff timer is started and no further
\* connect is attempted; a reconnection attempt is started only by a
\* disconnected signal or, within the chain such a signal started, by the
\* failure of a reconnect connect().
C21_NoRetryOfInitialConnect ==
  [][/\ \A t \in BagToSet(tasks) :
          (t.origin = "user" /\ ~t.disc /\ ConnectFails(t)) =>
            (/\ reconnectAttempts' = 0
             /\ startedSinceReset' = 0
             /\ tasks' = RemoveTask(tasks, t))
     /\ startedSinceReset' > startedSinceReset =>
          \/ IceSignal("disconnected")
          \/ \E t \in BagToSet(tasks), ok \in BOOLEAN :
               /\ t.origin = "reconnect"
               /\ \/ MicSettles(t, ok) \/ OfferSettles(t, ok) \/ LocalSettles(t, ok)
                  \/ FetchSettles(t, ok) \/ RemoteSettles(t, ok)
               /\ connectionState' = "failed"]_vars

\* the owner's connect() failed after the microphone was acquired
C21_Witness ==
  /\ connectionState = "failed"
  /\ emitted = <<[type |-> "connection", recoverable |-> FALSE]>>
  /\ reconnectAttempts = 0
  /\ discCount = -1
  /\ tasks = EmptyBag
  /\ clientSecret = "s1"
  /\ mediaStream /\ ~tornDown

\* C22: a disconnected signal that arrives while no credential is held
\* abandons reconnection and reports the failure: no attempt is counted or
\* scheduled, an error is emitted and Connection State is not left at
\* reconnecting.
C22_NoCredentialReported ==
  [][(IceSignal("disconnected") /\ clientSecret = NULL) =>
       (/\ reconnectAttempts' = reconnectAttempts
        /\ tasks' = tasks
        /\ emitted' # <<>>
        /\ connectionState' # "reconnecting")]_vars

\* C23: every reconnection attempt tears the previous transport session
\* down before it creates the new one, so that at most one peer connection
\* (with its control channel) and one captured media stream are live.
C23_OneLiveSession ==
  ~leakedPCs /\ ~leakedStreams

\* C24: on every error exit path every captured media track ends up
\* stopped: once a session that the owner did not disconnect has ended in
\* failed and nothing is pending, no captured stream is live.
C24_FailedReleasesMedia ==
  (connectionState = "failed" /\ ~tornDown /\ tasks = EmptyBag) =>
    (~mediaStream /\ ~leakedStreams)

(***************************************************************************)
(* Outbound events                                                         *)
(***************************************************************************)
\* C25: sendEvent while the control channel is absent or not open writes
\* nothing, does not throw and does not queue the event (nothing is written
\* when the channel opens later); while the channel is open the event is
\* written exactly once (nothing when send() itself throws, and the
\* exception does not leave sendEvent).
C25_SendEvent ==
  /\ [](\A type \in ClientEventTypes, ok \in BOOLEAN : ~sendEvent(Cur, type, ok).threw)
  /\ [][(\A type \in ClientEventTypes, ok \in BOOLEAN :
            SendEvent(type, ok) =>
              (sent' = IF dataChannel = "open" /\ ok THEN Append(sent, type) ELSE sent))
         /\ (DataChannelOpen => sent' = sent)]_vars

\* one event was written to the open channel
C25_Witness ==
  /\ sent = <<"session.update">>
  /\ dataChannel = "open"
  /\ connectionState = "connected"

\* C28: cancelResponse() and clearInputBuffer() leave Connection State, Turn
\* State, the output transcript buffer and History unchanged; they write one
\* advisory event to the open channel and nothing otherwise.
C28_AdvisoryOnly ==
  [][/\ \A ok \in BOOLEAN :
          CancelResponse(ok) =>
            /\ UNCHANGED <<connectionState, translationState, outputTranscript, history>>
            /\ sent' = IF dataChannel = "open" /\ ok
                        THEN Append(sent, "response.cancel") ELSE sent
     /\ \A ok \in BOOLEAN :
          ClearInputBuffer(ok) =>
            /\ UNCHANGED <<connectionState, translationState, outputTranscript, history>>
            /\ sent' = IF dataChannel = "open" /\ ok
                        THEN Append(sent, "input_audio_buffer.clear") ELSE sent]_vars

\* a response was cancelled and the input buffer cleared in the middle of a
\* turn
C28_Witness ==
  /\ sent = <<"response.cancel", "input_audio_buffer.clear">>
  /\ translationState = "speaking"
  /\ outputTranscript = <<"Bo">>
  /\ connectionState = "connected"

(***************************************************************************)
(* Transcript assembly                                                     *)
(***************************************************************************)
\* the sequences of 1..n output fragments
DeltaSeqs(n) == UNION {[1..k -> DeltaTexts] : k \in 1..n}

RECURSIVE Joined(_)
Joined(ds) == IF ds = <<>> THEN <<>> ELSE Head(ds) \o Joined(Tail(ds))

DeltaEvents(ds) ==
  [i \in 1..Len(ds) |-> Event("response.audio_transcript.delta", ds[i])]

C27_BuffersClearedAtTurnEnds ==
  (connectionState = "connected" /\ ~tornDown) =>
    \A type \in {"input_audio_buffer.speech_started", "response.done"} :
      translationState # TurnTarget(type, translationState) =>
      LET c == handleDataChannelMessage(Cur, Event(type, <<>>))
      IN c.currentInput = <<>> /\ c.currentOutput = <<>>

(***************************************************************************)
(* The credential endpoint                                                 *)
(***************************************************************************)
RateLimited == Response(429, "rate_limit_exceeded", "60", FALSE)

\* the window the key's first request opened is still running
WindowRunning(k) ==
  windowOpened[k] >= 0 /\ now <= windowOpened[k] + RATE_LIMIT_WINDOW

\* C30: for every client key and every 60-second window opened by that
\* key's first request, at most 10 requests pass the rate check; every
\* further request in the window is answered 429 with a Retry-After header
\* and asks for no session; what one key has sent changes neither the
\* counter of another key nor the answer to it.
C30_RateLimit ==
  /\ \A k \in Keys : windowPassed[k] <= RATE_LIMIT_MAX_REQUESTS
  /\ response.status = 429 => response = RateLimited
  /\ \A headers \in RouteHeaders, body \in RouteBodies, upstream \in Upstream :
       LET k == getClientIP(headers)
           r == POST(rateLimitMap, now, headers, body, upstream)
       IN /\ (WindowRunning(k) /\ windowPassed[k] = RATE_LIMIT_MAX_REQUESTS)
               => r.response = RateLimited
          /\ \A k2 \in Keys \ {k} :
               /\ r.map[k2] = rateLimitMap[k2]
               /\ \A e \in {NoEntry, Entry(RATE_LIMIT_MAX_REQUESTS, now)} :
                    POST([rateLimitMap EXCEPT ![k2] = e], now, headers, body,
                         upstream).response = r.response

\* in its second window one key is refused its 11th request while the
\* other key has used one request of its own window
C30_Witness ==
  /\ response = RateLimited
  /\ windowOpened["10.0.0.2"] > RATE_LIMIT_WINDOW
  /\ windowPassed["10.0.0.2"] = RATE_LIMIT_MAX_REQUESTS
  /\ windowPassed["127.0.0.1"] = 1

\* what the claim asks of a body
NonBlank(text) == \E i \in DOMAIN text : text[i] # " "

InstructionsOk(v) ==
  v.t = "string" /\ NonBlank(v.s) /\ Length(v.s) <= MaxInstructionsLength

\* the voice as it was sent is one of the allowed voices
VoiceOk(v) ==
  \/ v.t = "undefined"
  \/ v.t = "string" /\ ~NonBlank(v.s)
  \/ v.t = "string" /\ v.s \in {<<name>> : name \in VALID_VOICES}

\* the voice is one of the allowed voices between surrounding white space
VoiceOkTrimmed(v) ==
  \/ v.t = "undefined"
  \/ v.t = "string" /\ ~NonBlank(v.s)
  \/ /\ v.t = "string"
     /\ \E i \in DOMAIN v.s :
          /\ v.s[i] \in VALID_VOICES
          /\ \A j \in DOMAIN v.s \ {i} : v.s[j] = " "

ModalitiesOk(v) ==
  \/ v.t = "undefined"
  \/ /\ v.t = "array"
     /\ v.a # <<>>
     /\ \A i \in DOMAIN v.a :
          v.a[i].t = "string" /\ v.a[i].s \in {<<"text">>, <<"audio">>}

ValidationError == Response(400, "validation_error", "", FALSE)
InvalidJson == Response(400, "invalid_json", "", FALSE)
Answered == response # NoResponse

\* C29 as stated: a body is accepted only if instructions is a non-blank
\* string of at most 2000 characters, voice (when given and non-blank) is
\* one of the seven voices and modalities (when given) is a non-empty array
\* of text/audio; every other body is answered 400 validation_error, a
\* body that is not JSON 400 invalid_json, and no session is asked for.
C29_AsStated ==
  Answered =>
    LET ok == /\ requestBody.kind = "object"
              /\ InstructionsOk(requestBody.instructions)
              /\ VoiceOk(requestBody.voice)
              /\ ModalitiesOk(requestBody.modalities)
    IN /\ response.sessionRequested => ok
       /\ (requestBody.kind # "invalid" /\ ~ok) => response = ValidationError
       /\ requestBody.kind = "invalid" => response = InvalidJson

\* C29: a request that passes the rate check is accepted only if
\* instructions is a non-blank string of at most 2000 characters, voice
\* (when given and non-blank) is, once trimmed of surrounding white space,
\* one of the seven voices and modalities (when given) is a non-empty array
\* of text/audio; every other body that passes the rate check is answered
\* 400 validation_error, a body that is not JSON 400 invalid_json, and no
\* session is asked for.
C29_Validation ==
  (Answered /\ response.status # 429) =>
    LET ok == /\ requestBody.kind = "object"
              /\ InstructionsOk(requestBody.instructions)
              /\ VoiceOkTrimmed(requestBody.voice)
              /\ ModalitiesOk(requestBody.modalities)
    IN /\ response.sessionRequested => ok
       /\ (requestBody.kind # "invalid" /\ ~ok) => response = ValidationError
       /\ requestBody.kind = "invalid" => response = InvalidJson

\* a body whose voice is " alloy" got its session
C29_Witness ==
  /\ requestBody.voice = JString(<<" ", "alloy">>)
  /\ requestBody.instructions = JString(<<"x*1999", "x">>)
  /\ response.status = 201
  /\ response.sessionRequested

\* the key that sends no address header
Local == getClientIP(NoHeaders)

\* C31: the endpoint answers 201 only when the request passed the rate
\* check, parsed as JSON, passed validation, the server configuration is
\* valid and the upstream call succeeded, and the checks run in that order:
\* a refused request gets 429, a body that is no JSON 400, an invalid body
\* 400 even when the API key is missing, a valid body 500 when the key is
\* missing or malformed, and 500 with code openai_api_error and the
\* upstream message when the upstream call fails.
C31_AnswerOrder ==
  \A upstream \in Upstream :
    LET r == POST(rateLimitMap, now, NoHeaders, requestBody, upstream).response
        limited == WindowRunning(Local)
                     /\ windowPassed[Local] >= RATE_LIMIT_MAX_REQUESTS
    IN /\ limited => r = RateLimited
       /\ (~limited /\ requestBody.kind = "invalid") => r = InvalidJson
       /\ (~limited /\ requestBody.kind # "invalid"
             /\ ~validateRequest(requestBody).isValid) => r = ValidationError
       /\ (~limited /\ requestBody.kind # "invalid"
             /\ validateRequest(requestBody).isValid) =>
            /\ r.status = IF upstream = "ok" THEN 201 ELSE 500
            /\ upstream = "env_missing" => r.code = ""
            /\ upstream = "invalid_api_key" => r.code = "invalid_api_key"
            /\ upstream \in UpstreamErrors =>
                 r.code = "openai_api_error" /\ r.error = upstream
       /\ r.status = 201 =>
            /\ ~limited /\ requestBody.kind = "object"
            /\ validateRequest(requestBody).isValid
            /\ upstream = "ok"

\* a valid request was answered with the message of the upstream failure
C31_Witness ==
  /\ requestBody.instructions = JString(<<"x">>)
  /\ requestBody.voice = JString(<<"verse">>)
  /\ response.status = 500
  /\ response.code = "openai_api_error"
  /\ response.error = "quota"

(***************************************************************************)
(* The image translation service                                           *)
(***************************************************************************)
\* the estimated decoded size: three quarters of the base64 characters
\* (the string without a leading data:image/<letters>;base64,), rounded up
EstimatedSize(img) ==
  LET stripped == img.prefix \in {"data:image/png;base64,", "data:image/jpeg;base64,"}
      n == IF stripped THEN img.chars ELSE PrefixLength(img.prefix) + img.chars
  IN IF (3 * n) % 4 = 0 THEN (3 * n) \div 4 ELSE (3 * n) \div 4 + 1

ImageAnswered == imageResult # NoImageResult

\* C32 as stated: an image whose estimated decoded size exceeds 10 MB is
\* answered 413 without a call of the vision client, and an image at or
\* below the ceiling is not rejected for size.
C32_AsStated ==
  ImageAnswered =>
    IF EstimatedSize(image) > 10 * 1024 * 1024
      THEN imageResult.status = 413 /\ ~imageResult.visionCalled
      ELSE imageResult.status # 413

\* C32: the vision client is never called with an image whose estimated
\* decoded size exceeds 10 MB; when the server configuration is valid such
\* a request is answered 413 (500 otherwise), and an image at or below the
\* ceiling is not rejected for size.
C32_SizeCeiling ==
  \A env \in Environments, vision \in VisionOutcomes :
    LET r == translateImage(image, env, vision)
    IN IF EstimatedSize(image) > 10 * 1024 * 1024
         THEN /\ ~r.visionCalled
              /\ r.status = IF env = "valid" THEN 413 ELSE 500
         ELSE /\ r.status # 413
              /\ env = "valid" => r.visionCalled

\* the largest image within the ceiling was handed to the vision client
C32_Witness ==
  /\ image = Image("data:image/png;base64,", CeilingChars)
  /\ EstimatedSize(image) = MAX_IMAGE_SIZE
  /\ imageResult = ImageResult(TRUE, 200, TRUE)

(***************************************************************************)
(* The hook                                                                *)
(***************************************************************************)
\* the clients that hold a session or are setting one up
LiveClients == {i \in DOMAIN hook.clients : hook.clients[i] \in {"connecting", "connected"}}

\* C33: a hook connect() made while an earlier connect() is in progress
\* (also while it awaits the credential response) or while the session is
\* connected sends no second credential request and creates no second
\* client: at most one invocation is in progress and at most one client
\* created by the hook is live at any time.
C33_OneClientLive ==
  /\ BagCardinality(hook.calls) <= 1
  /\ Cardinality(LiveClients) <= 1

HookTypeOK ==
  /\ hook.requests \in 0..MaxRequests
  /\ Len(hook.clients) <= hook.requests
  /\ hook.clientRef \in 0..Len(hook.clients)

(***************************************************************************)
(* The catch block of attemptReconnect                                     *)
(***************************************************************************)
\* the backoff timer of the attempt after the n-th
NextTimer(n) ==
  Task("timer", "reconnect", NULL, "none", FALSE, n + 1,
       Min(1000 * Pow2(n), 10000))

\* the failure of the connect() of reconnect invocation t ends the chain
ChainEnds(t) ==
  /\ tasks' = RemoveTask(tasks, t)
  /\ reconnectAttempts' = reconnectAttempts
  /\ connectionState' = "failed"

C35_ReconnectingEnds ==
  (connectionState = "reconnecting")
    ~> (connectionState \in {"connected", "failed", "disconnected"})

\* the same for a client that holds a credential while reconnecting
ReconnectingEndsWithCredential ==
  (connectionState = "reconnecting" /\ clientSecret # NULL)
    ~> (connectionState \in {"connected", "failed", "disconnected"})

\* the fields of the client that C36 names
Session(c) ==
  <<c.clientSecret, c.peerConnection, c.mediaStream, c.connectionState,
    c.translationState>>

\* C36: connect() called while Connection State is connected changes
\* neither the stored credential, the peer connection, the media stream nor
\* the two states, whatever credential it is given; and when a backoff
\* timer expires while the state is connected, the pending attempt starts
\* no connection: those fields stay, no invocation is added, no peer
\* connection is replaced and the attempt counter is 0.
C36_ConnectWhileConnected ==
  /\ [](connectionState = "connected" =>
          \A secret \in Secrets \cup {NULL} : \A origin \in {"user", "reconnect"} :
             /\ Session(connectStart(Cur, secret, origin)) = Session(Cur)
             /\ connectStart(Cur, secret, origin).tasks = tasks)
  /\ [][\A t \in BagToSet(tasks) :
          (connectionState = "connected" /\ TimerExpires(t)) =>
             /\ UNCHANGED <<clientSecret, peerConnection, mediaStream,
                            connectionState, translationState, leakedPCs>>
             /\ tasks' = RemoveTask(tasks, t)
             /\ reconnectAttempts = 0
             /\ reconnectAttempts' = 0]_vars

\* a connected signal has arrived during a backoff delay: the session is
\* connected, holds its credential, and an attempt is still pending
C36_Witness ==
  /\ connectionState = "connected"
  /\ reconnectAttempts = 0
  /\ clientSecret # NULL
  /\ \E t \in BagToSet(tasks) : t.loc = "timer" /\ t.origin = "reconnect"

\* the session.update events among the events written
Updates(q) == {i \in 1..Len(q) : q[i] = "session.update"}

ChannelNotOpenAtReturn ==
  [][\A t \in BagToSet(tasks), ok \in BOOLEAN :
       HookConnectReturns(t, ok) => dataChannel # "open"]_vars

\* C38: a request of a key whose window has expired (the clock is past the
\* window end) passes the rate check and leaves the key with count 1 and a
\* window that ends 60 seconds from now; a denied request leaves the map
\* as it is; the window end of a key is always 60 seconds after the
\* request that opened the window, however many requests were denied, so
\* the first request after that time passes.
C38_WindowExpiry ==
  \A k \in Keys :
    LET r == checkRateLimit(rateLimitMap, k, now)
    IN /\ (rateLimitMap[k].present /\ now > rateLimitMap[k].resetTime) =>
            /\ r.allowed
            /\ r.map[k] = Entry(1, now + RATE_LIMIT_WINDOW)
       /\ ~r.allowed => r.map = rateLimitMap
       /\ rateLimitMap[k].present =>
            rateLimitMap[k].resetTime = windowOpened[k] + RATE_LIMIT_WINDOW
       /\ (windowOpened[k] >= 0 /\ now > windowOpened[k] + RATE_LIMIT_WINDOW) =>
            r.allowed

\* a key that was denied has sent a request after its window expired: the
\* request passed and opened a new window with count 1
C38_Witness ==
  /\ denied["127.0.0.1"]
  /\ response.status = 201
  /\ now > RATE_LIMIT_WINDOW
  /\ windowOpened["127.0.0.1"] = now
  /\ rateLimitMap["127.0.0.1"] = Entry(1, now + RATE_LIMIT_WINDOW)

====
